---- MODULE Spec2Model ----
(***************************************************************************)
(* Prompt-construction pipeline of llm-playground: the token estimator,    *)
(* the summarizer, the budget allocator (build_optimized_prompt, in its    *)
(* basic and extended variants) and the per-provider usage ledger.         *)
(*                                                                         *)
(* A text is a sequence of chunks [src, off, len]: the len characters of   *)
(* the named source string starting at offset off.  Slicing, joining and   *)
(* measuring are computed on the chunks, so "is a prefix of the user       *)
(* prompt" and "contains the trimmed user request" are facts about the     *)
(* text and not assumptions.                                               *)
(***************************************************************************)
EXTENDS Integers, Naturals, Sequences, FiniteSets, TLC

VARIABLES
    variant,        \* "basic" | "optimize" | "chat": which caller runs the allocator
    cw,             \* provider_cw_tokens
    max_tokens,     \* OptimizerConfig.max_tokens (extended variant only)
    mcu,            \* OptimizerConfig.max_context_usage, in tenths
    usable,         \* the optimizer provider is configured and holds its credential
    user_prompt, issues_text, papers_text,
    pc,             \* position inside build_optimized_prompt / the request
    user_final, issues_sum, papers_sum, optimized_instruction, final_prompt,
    new_i_budget, new_p_budget,
    plan,           \* the budgets computed for the request
    optimizer_error,\* debug["optimizer_error"] is set
    ledger,         \* UsageTracking of the provider
    cap,            \* ProviderConfig.usage_cap_tokens
    response,       \* what the request returned: "none" | "ok" | "error"
    trace,          \* history: the summarizer invocations and completion calls, in order
    th,             \* ledger race: per-thread position and locals
    su,             \* summarizer harness: one summarize call on small inputs
    cc,             \* one CompletionProvider.complete call: its inputs and the cap it sends
    nz,             \* one ToolResultNormalizer call: the raw tool result and what it returns
    rp,             \* one TextRenderer.render_papers call: the rows and the rendered lines
    ex,             \* one extract_issue_list / extract_comment_list call: the document and the list
    us,             \* a sequence of ledger calls on one provider: the last call and its result
    ao,             \* one POST /api/optimize: the global and the session ledger, the report
    li              \* one list_open_issues call: the server's issues and the loop's locals

vars == <<variant, cw, max_tokens, mcu, usable, user_prompt, issues_text, papers_text,
          pc, user_final, issues_sum, papers_sum, optimized_instruction, final_prompt,
          new_i_budget, new_p_budget, plan, optimizer_error, ledger, cap, response,
          trace, th, su, cc, nz, rp, ex, us, ao, li>>

auxVars == <<ex, us, ao, li>>

calcVars == <<cc, nz, rp, ex, us, ao, li>>

allocVars == <<variant, cw, max_tokens, mcu, usable, user_prompt, issues_text, papers_text,
               pc, user_final, issues_sum, papers_sum, optimized_instruction, final_prompt,
               new_i_budget, new_p_budget, plan, optimizer_error, response, trace>>

----------------------------------------------------------------------------
(* Bounds of the model *)

ShortIn == 19
LongIn == 6000
ShortOut == 40
OverOut == 400
CapSmall == 700
MaxThreads == 2
MaxAmount == 3
RaceCap == 4
MaxSuLen == 24
MaxSuTarget == 5
MaxWindow == 2600

Max(a, b) == IF a >= b THEN a ELSE b
Min(a, b) == IF a <= b THEN a ELSE b
CeilDiv(a, b) == (a + b - 1) \div b

----------------------------------------------------------------------------
(* Texts *)

EmptyText == << >>
Chunk(s, o, n) == [src |-> s, off |-> o, len |-> n]
Str(s, n) == IF n <= 0 THEN EmptyText ELSE << Chunk(s, 0, n) >>

RECURSIVE TextLen(_)
TextLen(t) == IF t = << >> THEN 0 ELSE Head(t).len + TextLen(Tail(t))

\* Python's text[:k] for k >= 0
RECURSIVE Take(_, _)
Take(t, k) ==
    IF k <= 0 \/ t = << >> THEN << >>
    ELSE IF Head(t).len <= k THEN << Head(t) >> \o Take(Tail(t), k - Head(t).len)
    ELSE << Chunk(Head(t).src, Head(t).off, k) >>

\* s occurs in t as a run of whole chunks: a contiguous substring
Contains(t, s) ==
    \/ s = << >>
    \/ \E i \in 1..Len(t) : i + Len(s) - 1 <= Len(t) /\ SubSeq(t, i, i + Len(s) - 1) = s

IsPrefixOf(s, t) == s = Take(t, TextLen(s))

\* len(str(n))
RECURSIVE DigitsNat(_)
DigitsNat(n) == IF n < 10 THEN 1 ELSE 1 + DigitsNat(n \div 10)
Digits(n) == IF n < 0 THEN 1 + DigitsNat(0 - n) ELSE DigitsNat(n)

----------------------------------------------------------------------------
(* TokenEstimator *)

estimate_tokens(text) == Max(1, CeilDiv(TextLen(text), 4))

\* mutant: the cut keeps one character more than max_tokens * 4
trim_one_char_over(text, m) ==
    IF estimate_tokens(text) <= m THEN text ELSE Take(text, Max(0, m * 4) + 1)

trim_to_tokens(text, m) ==
    IF estimate_tokens(text) <= m THEN text ELSE Take(text, Max(0, m * 4))

----------------------------------------------------------------------------
(* Budget derivation.  int(x * 0.25), int(x * 0.45) and int(x * k/10) for  *)
(* k in {1,5,8,10} equal the integer quotients below for every x in        *)
(* 0..300000 (compared with the float arithmetic).                         *)

reserve_reply(w) == (w * 25) \div 100
reserve_system == 800
available_context(w, u) == (w * u) \div 10

\* mutant: the system reserve is not taken off the window
prompt_budget_no_system(v, w, mt, u) ==
    IF v = "basic"
    THEN Max(1000, w - reserve_reply(w))
    ELSE Min(Max(1000, available_context(w, u) - reserve_reply(w)), mt)

prompt_budget(v, w, mt, u) ==
    IF v = "basic"
    THEN Max(1000, w - reserve_reply(w) - reserve_system)
    ELSE Min(Max(1000, available_context(w, u) - reserve_reply(w) - reserve_system), mt)

context_budget_total(pb) == (pb * 45) \div 100
issues_budget(cbt) == Max(150, cbt \div 2)

\* mutant: the papers block is given the whole context budget
papers_budget_whole(cbt) == Max(150, cbt)

papers_budget(cbt) == Max(150, cbt - issues_budget(cbt))
instruction_budget(pb) == Max(400, pb - context_budget_total(pb))

\* mutant: the user request may take 145% of the instruction budget
user_budget_above_instruction(ib) == Max(200, (ib * 145) \div 100)

user_budget(ib) == Max(200, (ib * 45) \div 100)

\* the plan of the running request
PB == prompt_budget(variant, cw, max_tokens, mcu)
CBT == context_budget_total(PB)
IB == issues_budget(CBT)
PPB == papers_budget(CBT)
INB == instruction_budget(PB)
UB == user_budget(INB)
RR == reserve_reply(cw)

----------------------------------------------------------------------------
(* Usage ledger *)

ZeroUsage == [total_tokens_used |-> 0, user_tokens |-> 0, optimized_tokens |-> 0,
              response_tokens |-> 0, api_calls |-> 0]

update_usage(l, u, o, r, calls) ==
    [user_tokens |-> l.user_tokens + u,
     optimized_tokens |-> l.optimized_tokens + o,
     response_tokens |-> l.response_tokens + r,
     api_calls |-> l.api_calls + calls,
     total_tokens_used |-> (l.user_tokens + u) + (l.optimized_tokens + o) + (l.response_tokens + r)]

\* mutant: the cap check leaves the response tokens out of the new total
usage_accepted_without_response(l, c, u, o, r) == ~(l.total_tokens_used + u + o > c)

\* the cap check of update_provider_usage: TRUE when the update is accepted
usage_accepted(l, c, u, o, r) == ~(l.total_tokens_used + u + o + r > c)

update_provider_usage(l, c, u, o, r, calls) ==
    IF usage_accepted(l, c, u, o, r) THEN update_usage(l, u, o, r, calls) ELSE l

----------------------------------------------------------------------------
(* Summarizer.  An outcome o of the provider is "fail" (complete raised),  *)
(* "unusable" (no provider configured: nothing is sent) or "ok" with the   *)
(* length of the stripped completion.                                      *)

Fail == [kind |-> "fail", len |-> 0]
Unusable == [kind |-> "unusable", len |-> 0]
Ok(n) == [kind |-> "ok", len |-> n]

\* the prompt f"""Summarize the following to <= {target_tokens} tokens ... {text}\n"""
summarize_prompt_len(text, target) == 30 + Digits(target) + 93 + TextLen(text) + 1

\* mutant: the completion is returned as it came, without the trim backstop
summarize_without_backstop(text, target, o) ==
    IF text = EmptyText THEN text
    ELSE IF o.kind = "ok" THEN Str("llm", o.len)
    ELSE trim_to_tokens(text, target)

summarize_to_tokens(text, target, o) ==
    IF text = EmptyText THEN text
    ELSE IF o.kind = "ok"
         THEN LET output == Str("llm", o.len)
              IN  IF estimate_tokens(output) > target
                  THEN trim_to_tokens(output, target)
                  ELSE output
         ELSE trim_to_tokens(text, target)

\* mutant: the request goes out for an empty text too
call_made_for_empty_too(text, o) == o.kind # "unusable"

\* a completion request goes out
call_made(text, o) == text # EmptyText /\ o.kind # "unusable"

\* usage_callback of ChatService.optimize_prompt, run after a completion that returned
usage_callback(l, c, v, in_tokens, out_tokens) ==
    IF v = "optimize" THEN update_provider_usage(l, c, in_tokens, 0, out_tokens, 1) ELSE l

\* the ledger after one summarize_to_tokens call
ledger_after_summarize(l, c, v, text, target, o) ==
    IF text # EmptyText /\ o.kind = "ok"
    THEN usage_callback(l, c, v, CeilDiv(summarize_prompt_len(text, target), 4),
                        estimate_tokens(Str("llm", o.len)))
    ELSE l

\* the completions the provider may return for a request with this target
\* (stripped lengths): empty, exactly at the budget, over it
OutLens(target) == {0, 4 * Max(target, 0), 4 * Max(target, 0) + OverOut}
Outcomes(target) ==
    IF usable THEN {Fail} \cup {Ok(n) : n \in OutLens(target)} ELSE {Unusable}
RewriteOutcomes(target) ==
    IF usable THEN {Fail} \cup {Ok(n) : n \in OutLens(target) \cup {ShortOut}}
    ELSE {Unusable}
\* summarize_to_tokens returns an empty text at once, whatever the provider would do
OutcomesFor(text, target) == IF text = EmptyText THEN {Fail} ELSE Outcomes(target)

\* one entry of the history: a Summarizer invocation or the rewrite request
Event(block, phase, target, text, o, in_tokens, out_tokens) ==
    [block |-> block, phase |-> phase, target |-> target,
     text |-> text,
     empty |-> text = EmptyText,
     called |-> call_made(text, o),
     returned |-> call_made(text, o) /\ o.kind = "ok",
     recorded |-> call_made(text, o) /\ o.kind = "ok" /\ variant = "optimize",
     refused |-> call_made(text, o) /\ o.kind = "ok" /\ variant = "optimize"
                 /\ ~usage_accepted(ledger, cap, in_tokens, 0, out_tokens)]

\* "except Exception:" of summarize_to_tokens and of the rewrite step: the failures
\* each handler catches
\* mutant: only the missing-provider RuntimeError is caught
summarize_catches_config_only == {"unusable"}

summarize_catches == {"fail", "unusable"}
rewrite_catches == {"fail", "unusable"}

\* a failure of the provider leaves summarize_to_tokens as an exception
escapes(text, o) == text # EmptyText /\ o.kind # "ok" /\ o.kind \notin summarize_catches

\* where build_optimized_prompt continues after a summarize call
after_summarize(text, o, next) == IF escapes(text, o) THEN "raised" ELSE next

\* one summarize_to_tokens call of the allocator: its ledger and history effects
SumCall(block, phase, text, target, o) ==
    /\ ledger' = ledger_after_summarize(ledger, cap, variant, text, target, o)
    /\ trace' = Append(trace, Event(block, phase, target, text, o,
                                    CeilDiv(summarize_prompt_len(text, target), 4),
                                    estimate_tokens(Str("llm", o.len))))

----------------------------------------------------------------------------
(* BudgetAllocator: build_optimized_prompt, one action per step between    *)
(* two completion calls                                                    *)

BudgetPlan(v, w, mt, u) ==
    LET pb == prompt_budget(v, w, mt, u)
        cbt == context_budget_total(pb)
    IN  [reserve_reply |-> reserve_reply(w),
         reserve_system |-> reserve_system,
         prompt_budget_total |-> pb,
         instruction_budget |-> instruction_budget(pb),
         context_budget_total |-> cbt,
         issues_budget |-> issues_budget(cbt),
         papers_budget |-> papers_budget(cbt),
         user_budget |-> user_budget(instruction_budget(pb))]

NoPlan == [reserve_reply |-> 0, reserve_system |-> 0, prompt_budget_total |-> 0,
           instruction_budget |-> 0, context_budget_total |-> 0, issues_budget |-> 0,
           papers_budget |-> 0, user_budget |-> 0]

\* the rewrite prompt: its fixed text, the budget's digits and the three embedded texts
rewrite_prompt_len(v, ib, uf, is, ps) ==
    186 + Digits(ib) + (IF v = "basic" THEN 663 ELSE 665) + TextLen(uf)
        + 41 + TextLen(is) + 43 + TextLen(ps) + 1

\* the rewrite prompt as a text: the fixed head, user_final, and the two summaries
\* under their headings
rewrite_prompt(v, ib, uf, is, ps) ==
    Str("rewrite_head", 186 + Digits(ib) + (IF v = "basic" THEN 663 ELSE 665)) \o uf
        \o Str("heading_context_a", 41) \o is
        \o Str("heading_context_b", 43) \o ps \o Str("newline", 1)

\* mutant: the fixed instruction drops the user request
fallback_without_request(uf) == Str("fallback", 448)

\* the fixed instruction used when the rewrite fails: 448 characters, then user_final
fallback_instruction(uf) == Str("fallback", 448) \o uf

\* f"{instruction}\n\n**GitHub Issues Context** ...:\n{issues_sum or '(none)'} \n\n**Research ...:\n{papers_sum or '(none)'}"
assemble(instr, is, ps) ==
    instr \o Str("heading_issues", 69) \o (IF is = EmptyText THEN Str("none", 6) ELSE is)
          \o Str("heading_papers", 55) \o (IF ps = EmptyText THEN Str("none", 6) ELSE ps)

\* int(overflow * (cur_i / total_c)): the float product of an exactly integral
\* quotient may round below it, so both truncations are possible there
reduce_i_values(overflow, cur_i, total_c) ==
    LET q == (overflow * cur_i) \div total_c
    IN  IF (overflow * cur_i) % total_c = 0 /\ q > 0 THEN {q - 1, q} ELSE {q}

\* mutant: the rewrite is requested first, before the context summaries
Start_rewrite_first ==
    /\ pc = "start"
    /\ plan' = BudgetPlan(variant, cw, max_tokens, mcu)
    /\ user_final' = IF estimate_tokens(user_prompt) <= UB THEN user_prompt
                     ELSE trim_to_tokens(user_prompt, UB)
    /\ pc' = "rewrite"
    /\ UNCHANGED <<variant, cw, max_tokens, mcu, usable, user_prompt, issues_text,
                   papers_text, issues_sum, papers_sum, optimized_instruction,
                   final_prompt, new_i_budget, new_p_budget, optimizer_error, ledger,
                   cap, response, trace, th, su, calcVars>>

Start ==
    /\ pc = "start"
    /\ plan' = BudgetPlan(variant, cw, max_tokens, mcu)
    /\ user_final' = IF estimate_tokens(user_prompt) <= UB THEN user_prompt
                     ELSE trim_to_tokens(user_prompt, UB)
    /\ pc' = "sum_issues"
    /\ UNCHANGED <<variant, cw, max_tokens, mcu, usable, user_prompt, issues_text,
                   papers_text, issues_sum, papers_sum, optimized_instruction,
                   final_prompt, new_i_budget, new_p_budget, optimizer_error, ledger,
                   cap, response, trace, th, su, calcVars>>

SummarizeIssues ==
    /\ pc = "sum_issues"
    /\ IF issues_text # EmptyText
       THEN \E o \in Outcomes(IB) :
               /\ issues_sum' = summarize_to_tokens(issues_text, IB, o)
               /\ pc' = after_summarize(issues_text, o, "sum_papers")
               /\ SumCall("issues", "initial", issues_text, IB, o)
       ELSE /\ issues_sum' = EmptyText
            /\ pc' = "sum_papers"
            /\ UNCHANGED <<ledger, trace>>
    /\ UNCHANGED <<variant, cw, max_tokens, mcu, usable, user_prompt, issues_text,
                   papers_text, user_final, papers_sum, optimized_instruction,
                   final_prompt, new_i_budget, new_p_budget, optimizer_error,
                   cap, response, plan, th, su, calcVars>>

SummarizePapers ==
    /\ pc = "sum_papers"
    /\ IF papers_text # EmptyText
       THEN \E o \in Outcomes(PPB) :
               /\ papers_sum' = summarize_to_tokens(papers_text, PPB, o)
               /\ pc' = after_summarize(papers_text, o, "rewrite")
               /\ SumCall("papers", "initial", papers_text, PPB, o)
       ELSE /\ papers_sum' = EmptyText
            /\ pc' = "rewrite"
            /\ UNCHANGED <<ledger, trace>>
    /\ UNCHANGED <<variant, cw, max_tokens, mcu, usable, user_prompt, issues_text,
                   papers_text, user_final, issues_sum, optimized_instruction,
                   final_prompt, new_i_budget, new_p_budget, optimizer_error,
                   cap, response, plan, th, su, calcVars>>

\* the try block of the instruction rewrite, up to the nested summarize call
Rewrite ==
    /\ pc = "rewrite"
    /\ \E o \in RewriteOutcomes(INB) :
         LET plen == rewrite_prompt_len(variant, INB, user_final, issues_sum, papers_sum)
             instr == IF o.len = 0 THEN user_final ELSE Str("llm", o.len)
         IN  /\ trace' = Append(trace, Event("instruction", "rewrite", INB,
                                             rewrite_prompt(variant, INB, user_final,
                                                            issues_sum, papers_sum), o,
                                             CeilDiv(plen, 4), estimate_tokens(instr)))
             /\ IF o.kind = "ok"
                THEN /\ optimized_instruction' = instr
                     /\ ledger' = usage_callback(ledger, cap, variant, CeilDiv(plen, 4),
                                                 estimate_tokens(instr))
                     /\ pc' = IF estimate_tokens(instr) > INB THEN "shrink" ELSE "check"
                     /\ UNCHANGED optimizer_error
                ELSE /\ optimized_instruction' = fallback_instruction(user_final)
                     /\ optimizer_error' = TRUE
                     /\ pc' = IF o.kind \in rewrite_catches THEN "check" ELSE "raised"
                     /\ UNCHANGED ledger
    /\ UNCHANGED <<variant, cw, max_tokens, mcu, usable, user_prompt, issues_text,
                   papers_text, user_final, issues_sum, papers_sum,
                   final_prompt, new_i_budget, new_p_budget,
                   cap, response, plan, th, su, calcVars>>

\* the rewritten instruction overflows instruction_budget: summarize it
ShrinkInstruction ==
    /\ pc = "shrink"
    /\ \E o \in OutcomesFor(optimized_instruction, INB) :
         /\ SumCall("instruction", "shrink", optimized_instruction, INB, o)
         /\ IF escapes(optimized_instruction, o)
            THEN \* the call sits inside the rewrite's try block
                 /\ optimized_instruction' = fallback_instruction(user_final)
                 /\ optimizer_error' = TRUE
                 /\ pc' = IF o.kind \in rewrite_catches THEN "check" ELSE "raised"
            ELSE /\ optimized_instruction' = summarize_to_tokens(optimized_instruction, INB, o)
                 /\ pc' = "check"
                 /\ UNCHANGED optimizer_error
    /\ UNCHANGED <<variant, cw, max_tokens, mcu, usable, user_prompt, issues_text,
                   papers_text, user_final, issues_sum, papers_sum,
                   final_prompt, new_i_budget, new_p_budget,
                   cap, response, plan, th, su, calcVars>>

total_now == estimate_tokens(optimized_instruction) + estimate_tokens(issues_sum)
             + estimate_tokens(papers_sum)

\* mutant: the reduced budget has no 100-token floor
new_budget_unfloored(cur, reduce) == cur - reduce

\* mutant: the block's share of the overflow is added to its size
new_budget_raised(cur, reduce) == Max(100, cur + reduce)

\* new_i_budget = max(100, cur_i - reduce_i), and the same for the papers block
new_budget(cur, reduce) == Max(100, cur - reduce)

\* "if total_now > prompt_budget": the new budgets of the overflow rebalancing pass
RebalanceCheck ==
    /\ pc = "check"
    /\ IF total_now > PB
       THEN LET overflow == total_now - PB
                cur_i == IF estimate_tokens(issues_sum) = 0 THEN 1 ELSE estimate_tokens(issues_sum)
                cur_p == IF estimate_tokens(papers_sum) = 0 THEN 1 ELSE estimate_tokens(papers_sum)
                total_c == cur_i + cur_p
            IN  \E reduce_i \in reduce_i_values(overflow, cur_i, total_c) :
                   /\ new_i_budget' = new_budget(cur_i, reduce_i)
                   /\ new_p_budget' = new_budget(cur_p, overflow - reduce_i)
                   /\ pc' = "reb_issues"
       ELSE pc' = "assemble" /\ UNCHANGED <<new_i_budget, new_p_budget>>
    /\ UNCHANGED <<variant, cw, max_tokens, mcu, usable, user_prompt, issues_text,
                   papers_text, user_final, issues_sum, papers_sum, optimized_instruction,
                   final_prompt, optimizer_error, ledger,
                   cap, response, trace, plan, th, su, calcVars>>

RebalanceIssues ==
    /\ pc = "reb_issues"
    /\ \E o \in OutcomesFor(issues_sum, new_i_budget) :
         /\ issues_sum' = summarize_to_tokens(issues_sum, new_i_budget, o)
         /\ pc' = after_summarize(issues_sum, o, "reb_papers")
         /\ SumCall("issues", "rebalance", issues_sum, new_i_budget, o)
    /\ UNCHANGED <<variant, cw, max_tokens, mcu, usable, user_prompt, issues_text,
                   papers_text, user_final, papers_sum, optimized_instruction,
                   final_prompt, new_i_budget, new_p_budget, optimizer_error,
                   cap, response, plan, th, su, calcVars>>

RebalancePapers ==
    /\ pc = "reb_papers"
    /\ \E o \in OutcomesFor(papers_sum, new_p_budget) :
         /\ papers_sum' = summarize_to_tokens(papers_sum, new_p_budget, o)
         /\ pc' = after_summarize(papers_sum, o, "assemble")
         /\ SumCall("papers", "rebalance", papers_sum, new_p_budget, o)
    /\ UNCHANGED <<variant, cw, max_tokens, mcu, usable, user_prompt, issues_text,
                   papers_text, user_final, issues_sum, optimized_instruction,
                   final_prompt, new_i_budget, new_p_budget, optimizer_error,
                   cap, response, plan, th, su, calcVars>>

\* "Build final prompt" and the check that opens the final safety pass
Assemble ==
    /\ pc = "assemble"
    /\ final_prompt' = assemble(optimized_instruction, issues_sum, papers_sum)
    /\ pc' = IF estimate_tokens(final_prompt') > PB THEN "fin_issues" ELSE "return"
    /\ UNCHANGED <<variant, cw, max_tokens, mcu, usable, user_prompt, issues_text,
                   papers_text, user_final, issues_sum, papers_sum, optimized_instruction,
                   new_i_budget, new_p_budget, optimizer_error, ledger,
                   cap, response, trace, plan, th, su, calcVars>>

rem == PB - estimate_tokens(optimized_instruction)

\* mutant: the floor of the issues half is 800 tokens
half_floor_800 == Max(800, rem \div 2)

half == Max(80, rem \div 2)

FinalIssues ==
    /\ pc = "fin_issues"
    /\ \E o \in OutcomesFor(issues_sum, half) :
         /\ issues_sum' = summarize_to_tokens(issues_sum, half, o)
         /\ pc' = after_summarize(issues_sum, o, "fin_papers")
         /\ SumCall("issues", "final", issues_sum, half, o)
    /\ UNCHANGED <<variant, cw, max_tokens, mcu, usable, user_prompt, issues_text,
                   papers_text, user_final, papers_sum, optimized_instruction,
                   final_prompt, new_i_budget, new_p_budget, optimizer_error,
                   cap, response, plan, th, su, calcVars>>

\* mutant: the final pass is repeated until the prompt fits
FinalPapers_until_fit ==
    /\ pc = "fin_papers"
    /\ \E o \in OutcomesFor(papers_sum, rem - half) :
         /\ papers_sum' = summarize_to_tokens(papers_sum, rem - half, o)
         /\ pc' = after_summarize(papers_sum, o, "assemble")
         /\ SumCall("papers", "final", papers_sum, rem - half, o)
    /\ final_prompt' = assemble(optimized_instruction, issues_sum, papers_sum')
    /\ UNCHANGED <<variant, cw, max_tokens, mcu, usable, user_prompt, issues_text,
                   papers_text, user_final, issues_sum, optimized_instruction,
                   new_i_budget, new_p_budget, optimizer_error,
                   cap, response, plan, th, su, calcVars>>

FinalPapers ==
    /\ pc = "fin_papers"
    /\ \E o \in OutcomesFor(papers_sum, rem - half) :
         /\ papers_sum' = summarize_to_tokens(papers_sum, rem - half, o)
         /\ pc' = after_summarize(papers_sum, o, "return")
         /\ SumCall("papers", "final", papers_sum, rem - half, o)
    /\ final_prompt' = assemble(optimized_instruction, issues_sum, papers_sum')
    /\ UNCHANGED <<variant, cw, max_tokens, mcu, usable, user_prompt, issues_text,
                   papers_text, user_final, issues_sum, optimized_instruction,
                   new_i_budget, new_p_budget, optimizer_error,
                   cap, response, plan, th, su, calcVars>>

\* return OptimizedPromptResult(...); the caller answers with it
Return ==
    /\ pc \in {"return", "raised"}
    /\ response' = IF pc = "raised" THEN "error" ELSE "ok"
    /\ pc' = "done"
    /\ UNCHANGED <<variant, cw, max_tokens, mcu, usable, user_prompt, issues_text,
                   papers_text, user_final, issues_sum, papers_sum, optimized_instruction,
                   final_prompt, new_i_budget, new_p_budget, optimizer_error, ledger,
                   cap, trace, plan, th, su, calcVars>>

----------------------------------------------------------------------------
(* One request through the allocator *)

default_usage_cap == 1000000

Threads == 1..MaxThreads
IdleThreads == [t \in Threads |-> [pc |-> "idle", amount |-> 0, result |-> "none"]]
IdleSu == [pc |-> "idle", provider |-> "ready", text |-> EmptyText, target |-> 0,
           o |-> Fail, out |-> EmptyText]
IdleCc == [pc |-> "idle", kind |-> "openai", cw |-> 0, hard_cap |-> 0, prompt |-> EmptyText,
           system |-> EmptyText, sent |-> [has |-> FALSE, value |-> 0]]
IdleNz == [pc |-> "idle", shape |-> "none", rep |-> "json", prose |-> FALSE]
IdleRp == [pc |-> "idle", rows |-> << >>, lines |-> << >>, out |-> << >>]
IdleEx == [pc |-> "idle"]
IdleUs == [pc |-> "idle"]
IdleAo == [pc |-> "idle"]
IdleLi == [pc |-> "idle"]
IdleAux == ex = IdleEx /\ us = IdleUs /\ ao = IdleAo /\ li = IdleLi
IdleCalc == cc = IdleCc /\ nz = IdleNz /\ rp = IdleRp /\ IdleAux

\* no request is running: the allocator, the ledger race and the summarizer harness
\* are at their initial values
IdleRequest ==
    /\ variant = "optimize" /\ cw = 8000 /\ max_tokens = 1000 /\ mcu = 8
    /\ usable = TRUE
    /\ user_prompt = << >> /\ issues_text = << >> /\ papers_text = << >>
    /\ pc = "start"
    /\ user_final = << >> /\ issues_sum = << >> /\ papers_sum = << >>
    /\ optimized_instruction = << >> /\ final_prompt = << >>
    /\ new_i_budget = 0 /\ new_p_budget = 0
    /\ plan = NoPlan
    /\ optimizer_error = FALSE
    /\ response = "none"
    /\ trace = << >>
    /\ th = IdleThreads
    /\ su = IdleSu

\* <<caller, context window, max_tokens, max_context_usage in tenths>>
Setups == { <<"basic", 8000, 1000, 8>>, <<"basic", 1, 1000, 8>>,
            <<"optimize", 8000, 1000, 8>>, <<"optimize", 8000, 500, 8>>,
            <<"optimize", 8000, 481, 8>>,
            <<"optimize", 128000, 1, 1>>, <<"chat", 8000, 1000, 8>> }

Init ==
    /\ \E s \in Setups :
         /\ variant = s[1] /\ cw = s[2] /\ max_tokens = s[3] /\ mcu = s[4]
         /\ cap \in (IF s[1] = "optimize" THEN {CapSmall, default_usage_cap}
                     ELSE {default_usage_cap})
    /\ usable \in BOOLEAN
    /\ user_prompt \in {Str("user", n) : n \in {0, ShortIn, LongIn}}
    /\ issues_text \in {Str("issues", n) : n \in {0, ShortIn, LongIn}}
    /\ papers_text \in {Str("papers", n) : n \in {0, LongIn}}
    /\ pc = "start"
    /\ user_final = EmptyText /\ issues_sum = EmptyText /\ papers_sum = EmptyText
    /\ optimized_instruction = EmptyText /\ final_prompt = EmptyText
    /\ new_i_budget = 0 /\ new_p_budget = 0
    /\ plan = NoPlan
    /\ optimizer_error = FALSE
    /\ ledger = ZeroUsage
    /\ response = "none"
    /\ trace = << >>
    /\ th = IdleThreads
    /\ su = IdleSu
    /\ IdleCalc

Next ==
    \/ Start
    \/ SummarizeIssues
    \/ SummarizePapers
    \/ Rewrite
    \/ ShrinkInstruction
    \/ RebalanceCheck
    \/ RebalanceIssues
    \/ RebalancePapers
    \/ Assemble
    \/ FinalIssues
    \/ FinalPapers
    \/ Return

Spec == Init /\ [][Next]_vars

----------------------------------------------------------------------------
(* The budget derivation alone, over every window up to MaxWindow, the     *)
(* shipped default windows and a spread of optimizer configurations        *)

Windows == (1..MaxWindow) \cup {8000, 32000, 128000, 200000}
MaxTokensChoices == {1, 500, 666, 667, 1000, 100000}
UsageChoices == {1, 5, 8, 10}

BudgetInit ==
    /\ variant \in {"basic", "optimize"}
    /\ cw \in Windows
    /\ max_tokens \in (IF variant = "basic" THEN {1000} ELSE MaxTokensChoices)
    /\ mcu \in (IF variant = "basic" THEN {8} ELSE UsageChoices)
    /\ cap = default_usage_cap
    /\ usable = TRUE
    /\ user_prompt = Str("user", ShortIn)
    /\ issues_text = EmptyText
    /\ papers_text = EmptyText
    /\ pc = "start"
    /\ user_final = EmptyText /\ issues_sum = EmptyText /\ papers_sum = EmptyText
    /\ optimized_instruction = EmptyText /\ final_prompt = EmptyText
    /\ new_i_budget = 0 /\ new_p_budget = 0
    /\ plan = NoPlan
    /\ optimizer_error = FALSE
    /\ ledger = ZeroUsage
    /\ response = "none"
    /\ trace = << >>
    /\ th = IdleThreads
    /\ su = IdleSu
    /\ IdleCalc

BudgetNext == Start

BudgetSpec == BudgetInit /\ [][BudgetNext]_vars

Planned == plan # NoPlan

\* C1: for every context window >= 1000 and every optimizer configuration the derived
\* plan satisfies issues_budget + papers_budget <= context_budget_total
\* <= prompt_budget_total <= context_window.
C1_BudgetInvariant ==
    (Planned /\ cw >= 1000) =>
        /\ plan.issues_budget + plan.papers_budget <= plan.context_budget_total
        /\ plan.context_budget_total <= plan.prompt_budget_total
        /\ plan.prompt_budget_total <= cw

\* C9 as stated: for every positive context window, reserve_reply + reserve_system
\* + prompt_budget_total <= provider_context_window.
C9_ReserveSumAnyWindow ==
    (Planned /\ cw >= 1) =>
        plan.reserve_reply + plan.reserve_system + plan.prompt_budget_total <= cw

\* C9 amended: the sum of the two reserves and the prompt budget stays within the
\* context window for every window of at least 2399 tokens, whatever the optimizer
\* configuration.
C9_ReserveSumFromFloorWindow ==
    (Planned /\ cw >= 2399) =>
        plan.reserve_reply + plan.reserve_system + plan.prompt_budget_total <= cw

\* a window at the threshold whose plan fills it exactly
C9_Witness ==
    /\ Planned /\ cw = 2400 /\ variant = "basic"
    /\ plan.reserve_reply + plan.reserve_system + plan.prompt_budget_total = cw

----------------------------------------------------------------------------
(* The allocator's return *)

Events == {trace[i] : i \in DOMAIN trace}
Returned == pc = "done" /\ response = "ok"
FinalPassRan == \E e \in Events : e.phase = "final"
RebalanceRan == \E e \in Events : e.phase = "rebalance"
final_tokens_est == estimate_tokens(final_prompt)

\* C2 as stated: on every return final_tokens_est <= prompt_budget_total.
C2_FinalWithinBudget == Returned => final_tokens_est <= plan.prompt_budget_total

\* C2 amended: on return final_tokens_est <= prompt_budget_total when the final safety
\* pass did not run; when it ran, final_tokens_est <= max(prompt_budget_total,
\* estimate(instruction) + 80) + 33: the 124 heading characters, the "(none)" literals
\* and the 80-token floor of the issues half are not taken off the remainders.
C2_FinalWithinMargin ==
    Returned =>
        /\ ~FinalPassRan => final_tokens_est <= plan.prompt_budget_total
        /\ final_tokens_est
             <= Max(plan.prompt_budget_total, estimate_tokens(optimized_instruction) + 80) + 33

\* a return after the final pass that overshoots the budget, inside the margin
C2_Witness ==
    /\ Returned /\ FinalPassRan
    /\ final_tokens_est > plan.prompt_budget_total

\* the user request as the allocator must embed it: whole when it fits user_budget,
\* else its first 4 * user_budget characters
TrimmedRequest ==
    IF TextLen(user_prompt) <= 4 * plan.user_budget THEN user_prompt
    ELSE << Chunk("user", 0, 4 * plan.user_budget) >>

NoCallReturned == \A e \in Events : ~e.returned

\* C3: when every completion call raises, the returned optimized_prompt is non-empty
\* and holds the user request trimmed to user_budget as a contiguous substring.
C3_DegradesToRequest ==
    (Returned /\ NoCallReturned) =>
        /\ final_prompt # EmptyText
        /\ Contains(final_prompt, TrimmedRequest)

\* every call of a request with two context blocks and an overlong user prompt failed
C3_Witness ==
    /\ Returned /\ NoCallReturned
    /\ Cardinality({e \in Events : e.called}) >= 3
    /\ TextLen(user_prompt) > 4 * plan.user_budget
    /\ TextLen(TrimmedRequest) = 4 * plan.user_budget

\* C4: whatever the completion calls do, build_prompt returns a result and no
\* exception leaves it.
C4_NoExceptionEscapes ==
    /\ pc # "raised"
    /\ response # "error"
    /\ pc = "done" => response = "ok" /\ final_prompt # EmptyText

\* a return after a failed summarization call and a failed rewrite, on a 1-token window
C4_Witness ==
    /\ Returned /\ cw = 1
    /\ \E e \in Events : e.block = "issues" /\ e.called /\ ~e.returned
    /\ \E e \in Events : e.phase = "rewrite" /\ e.called /\ ~e.returned

Rounds(b) == Cardinality({i \in DOMAIN trace : trace[i].block = b})

Rank(p) ==
    CASE p = "start" -> 0 [] p = "sum_issues" -> 1 [] p = "sum_papers" -> 2
      [] p = "rewrite" -> 3 [] p = "shrink" -> 4 [] p = "check" -> 5
      [] p = "reb_issues" -> 6 [] p = "reb_papers" -> 7 [] p = "assemble" -> 8
      [] p = "fin_issues" -> 9 [] p = "fin_papers" -> 10 [] p = "return" -> 11
      [] p = "raised" -> 11 [] p = "done" -> 12

\* C5: each context block goes to the Summarizer at most three times in one call,
\* and the call terminates: every step moves strictly forward through the
\* procedure and a step is possible until it has returned.
C5_BoundedRounds ==
    /\ [](Rounds("issues") <= 3 /\ Rounds("papers") <= 3)
    /\ [](pc # "done" => ENABLED Next)
    /\ [][Rank(pc') > Rank(pc)]_vars

\* both blocks went through the initial, rebalancing and final rounds
C5_Witness ==
    /\ Returned
    /\ Rounds("issues") = 3 /\ Rounds("papers") = 3
    /\ \A e \in Events : e.block \in {"issues", "papers"} => ~e.empty

RefusedSome == \E e \in Events : e.refused

\* C7: when recording the usage of an optimization request is refused by the cap,
\* the request ends with a usage-cap-exceeded outcome, not a normal optimized prompt.
C7_RefusalRejects == (pc = "done" /\ RefusedSome) => response # "ok"

\* C8: every completion call the allocator makes that returns is followed by a
\* record_usage call, on the optimization path and on the chat path.
C8_EveryCallRecorded ==
    variant \in {"optimize", "chat"} => \A e \in Events : e.returned => e.recorded

----------------------------------------------------------------------------
(* Concurrent update_provider_usage calls on one provider of one           *)
(* SettingsManager: request threads share the cached settings object, and  *)
(* a thread switch may fall between the cap check and update_usage.        *)

\* update_provider_usage(provider_key, user_tokens=n) is entered
UsageCall(t) ==
    /\ th[t].pc = "idle"
    /\ \E n \in 0..MaxAmount :
         th' = [th EXCEPT ![t] = [pc |-> "check", amount |-> n, result |-> "none"]]
    /\ UNCHANGED <<allocVars, ledger, cap, su, calcVars>>

\* new_total = total_tokens_used + ...; "if new_total > usage_cap_tokens: return False"
UsageCheck(t) ==
    /\ th[t].pc = "check"
    /\ th' = [th EXCEPT ![t] =
                IF usage_accepted(ledger, cap, th[t].amount, 0, 0)
                THEN [@ EXCEPT !.pc = "update"]
                ELSE [@ EXCEPT !.pc = "done", !.result = "rejected"]]
    /\ UNCHANGED <<allocVars, ledger, cap, su, calcVars>>

\* usage_tracking.update_usage(...); save_settings(...); return True
UsageUpdate(t) ==
    /\ th[t].pc = "update"
    /\ ledger' = update_usage(ledger, th[t].amount, 0, 0, 1)
    /\ th' = [th EXCEPT ![t] = [@ EXCEPT !.pc = "done", !.result = "accepted"]]
    /\ UNCHANGED <<allocVars, cap, su, calcVars>>

LedgerInit ==
    /\ variant = "optimize" /\ cw = 8000 /\ max_tokens = 1000 /\ mcu = 8
    /\ cap = RaceCap
    /\ usable = TRUE
    /\ user_prompt = EmptyText /\ issues_text = EmptyText /\ papers_text = EmptyText
    /\ pc = "start"
    /\ user_final = EmptyText /\ issues_sum = EmptyText /\ papers_sum = EmptyText
    /\ optimized_instruction = EmptyText /\ final_prompt = EmptyText
    /\ new_i_budget = 0 /\ new_p_budget = 0
    /\ plan = NoPlan
    /\ optimizer_error = FALSE
    /\ ledger = ZeroUsage
    /\ response = "none"
    /\ trace = << >>
    /\ th = IdleThreads
    /\ su = IdleSu
    /\ IdleCalc

LedgerNext == \E t \in Threads : UsageCall(t) \/ UsageCheck(t) \/ UsageUpdate(t)

LedgerSpec == LedgerInit /\ [][LedgerNext]_vars

\* the calls run one after another in the order f: the ledger and each call's result
RECURSIVE SequentialRun(_, _, _, _)
SequentialRun(f, i, l, res) ==
    IF i > MaxThreads THEN [ledger |-> l, result |-> res]
    ELSE LET t == f[i]
             ok == usage_accepted(l, cap, th[t].amount, 0, 0)
         IN  SequentialRun(f, i + 1,
                           update_provider_usage(l, cap, th[t].amount, 0, 0, 1),
                           [res EXCEPT ![t] = IF ok THEN "accepted" ELSE "rejected"])

Orders == {f \in [1..MaxThreads -> Threads] : \A i, j \in 1..MaxThreads : f[i] = f[j] => i = j}
AllCallsDone == \A t \in Threads : th[t].pc = "done"

\* C6: concurrent update_provider_usage calls on one provider behave as one atomic
\* step each: the final counters and every call's accept/reject result are those of
\* some sequential execution of the same calls.
C6_UsageUpdatesSerializable ==
    AllCallsDone =>
        \E f \in Orders :
            SequentialRun(f, 1, ZeroUsage, [t \in Threads |-> "none"])
                = [ledger |-> ledger, result |-> [t \in Threads |-> th[t].result]]

----------------------------------------------------------------------------
(* One summarize_to_tokens call on small inputs *)

SuTexts == {Str("text", n) : n \in 0..MaxSuLen}
SuTargets == (0 - 2)..MaxSuTarget
SuOutcomes == {Fail} \cup {Ok(n) : n \in 0..(MaxSuLen + 4)}

\* the states of the optimizer's provider entry: absent from the providers mapping,
\* present with enabled = False, present without api_key, present and complete
ProviderStates == {"missing", "disabled", "no_key", "ready"}

\* what the provider step of summarize_to_tokens comes to: _get_optimizer_provider
\* raises only for an absent entry, complete raises at once without api_key, and the
\* enabled flag is read by neither, so a disabled provider is sent the request
provider_outcome(p, o) == IF p \in {"missing", "no_key"} THEN Unusable ELSE o

SuSummarize ==
    /\ su.pc = "idle"
    /\ su' = [su EXCEPT !.pc = "done",
                        !.out = summarize_to_tokens(su.text, su.target,
                                                    provider_outcome(su.provider, su.o))]
    /\ UNCHANGED <<allocVars, ledger, cap, th, calcVars>>

SumInit ==
    /\ variant = "optimize" /\ cw = 8000 /\ max_tokens = 1000 /\ mcu = 8
    /\ cap = default_usage_cap
    /\ usable = TRUE
    /\ user_prompt = EmptyText /\ issues_text = EmptyText /\ papers_text = EmptyText
    /\ pc = "start"
    /\ user_final = EmptyText /\ issues_sum = EmptyText /\ papers_sum = EmptyText
    /\ optimized_instruction = EmptyText /\ final_prompt = EmptyText
    /\ new_i_budget = 0 /\ new_p_budget = 0
    /\ plan = NoPlan
    /\ optimizer_error = FALSE
    /\ ledger = ZeroUsage
    /\ response = "none"
    /\ trace = << >>
    /\ th = IdleThreads
    /\ IdleCalc
    /\ \E p \in ProviderStates, t \in SuTexts, g \in SuTargets, o \in SuOutcomes :
         su = [pc |-> "idle", provider |-> p, text |-> t, target |-> g, o |-> o,
               out |-> EmptyText]

\* one trim_to_tokens call on the same inputs
SuTrim ==
    /\ su.pc = "idle"
    /\ su' = [su EXCEPT !.pc = "trimmed", !.out = trim_to_tokens(su.text, su.target)]
    /\ UNCHANGED <<allocVars, ledger, cap, th, calcVars>>

SumNext == SuSummarize \/ SuTrim

SumSpec == SumInit /\ [][SumNext]_vars

\* C10: for every non-empty text, every target_tokens >= 1 and every provider
\* outcome, estimate(summarize(text, target_tokens)) <= target_tokens.
C10_SummaryWithinTarget ==
    (su.pc = "done" /\ su.text # EmptyText /\ su.target >= 1) =>
        estimate_tokens(su.out) <= su.target

\* a completion over the target that the backstop cut to exactly the target
C10_Witness ==
    /\ su.pc = "done" /\ su.text # EmptyText /\ su.target >= 1
    /\ su.provider = "ready" /\ su.o.kind = "ok"
    /\ estimate_tokens(Str("llm", su.o.len)) > su.target
    /\ estimate_tokens(su.out) = su.target

\* the completion call failed, or the configured provider is unusable
SuFailedOrUnusable ==
    su.o.kind = "fail" \/ su.provider \in {"missing", "disabled", "no_key"}

\* C11: whenever the completion call of summarize(text, target_tokens) fails, or the
\* configured provider is not configured, disabled or missing its credential,
\* summarize returns exactly trim(text, target_tokens) of the original text.
C11_FailureFallsBackToTrim ==
    (su.pc = "done" /\ SuFailedOrUnusable) =>
        su.out = trim_to_tokens(su.text, su.target)

\* C12: for every text and every n >= 0, estimate(trim(text, n)) <= max(n, 1).
C12_TrimWithinBudget ==
    (su.pc = "trimmed" /\ su.target >= 0) =>
        estimate_tokens(su.out) <= Max(su.target, 1)

\* a text over the budget cut to its first 4 * n characters, which fill the budget
C12_Witness ==
    /\ su.pc = "trimmed" /\ su.target >= 1
    /\ estimate_tokens(su.text) > su.target
    /\ su.out = Take(su.text, 4 * su.target)
    /\ estimate_tokens(su.out) = su.target

----------------------------------------------------------------------------
(* CompletionProvider.complete: the completion cap each variant puts into   *)
(* the request it sends                                                     *)

ProviderKinds == {"openai", "anthropic", "ollama", "google"}

\* reserved_for_response = max(1000, int(context_window * 0.25))
reserved_for_response(w) == Max(1000, (w * 25) \div 100)

\* f"{system}\n\n{prompt}".strip() if system else prompt
full_prompt(prompt, system) ==
    IF system = EmptyText THEN prompt
    ELSE IF prompt = EmptyText THEN system
    ELSE system \o Str("blank_line", 2) \o prompt

\* the tokens the variant counts as its input
total_input_tokens(kind, prompt, system) ==
    IF kind = "ollama" THEN estimate_tokens(full_prompt(prompt, system))
    ELSE estimate_tokens(prompt) + (IF system = EmptyText THEN 0 ELSE estimate_tokens(system))

available_tokens(kind, w, prompt, system) ==
    w - total_input_tokens(kind, prompt, system) - reserved_for_response(w)

\* max(100, min(available_tokens, provider_cap))
max_completion_tokens(kind, w, hard_cap, prompt, system) ==
    Max(100, Min(available_tokens(kind, w, prompt, system), hard_cap))

\* the cap field of the payload: max_completion_tokens (OpenAI), max_tokens
\* (Anthropic), options.num_predict (Ollama); the Google payload carries only
\* contents and generationConfig.temperature
sent_cap(kind, w, hard_cap, prompt, system) ==
    IF kind = "google" THEN [has |-> FALSE, value |-> 0]
    ELSE [has |-> TRUE, value |-> max_completion_tokens(kind, w, hard_cap, prompt, system)]

CapWindows == {1, 1000, 1500, 4000, 8000, 128000, 200000}
HardCaps == {1, 50, 99, 100, 101, 4096, 8192}
PromptLens == {0, ShortIn, 400, LongIn, 40000}
SystemLens == {0, 90}

Complete ==
    /\ cc.pc = "idle"
    /\ cc' = [cc EXCEPT !.pc = "sent",
                        !.sent = sent_cap(cc.kind, cc.cw, cc.hard_cap, cc.prompt, cc.system)]
    /\ UNCHANGED <<allocVars, ledger, cap, th, su, nz, rp, auxVars>>

CapInit ==
    /\ variant = "optimize" /\ cw = 8000 /\ max_tokens = 1000 /\ mcu = 8
    /\ cap = default_usage_cap
    /\ usable = TRUE
    /\ user_prompt = EmptyText /\ issues_text = EmptyText /\ papers_text = EmptyText
    /\ pc = "start"
    /\ user_final = EmptyText /\ issues_sum = EmptyText /\ papers_sum = EmptyText
    /\ optimized_instruction = EmptyText /\ final_prompt = EmptyText
    /\ new_i_budget = 0 /\ new_p_budget = 0
    /\ plan = NoPlan
    /\ optimizer_error = FALSE
    /\ ledger = ZeroUsage
    /\ response = "none"
    /\ trace = << >>
    /\ th = IdleThreads
    /\ su = IdleSu
    /\ nz = IdleNz /\ rp = IdleRp /\ IdleAux
    /\ \E k \in ProviderKinds, w \in CapWindows, h \in HardCaps,
          pl \in PromptLens, sl \in SystemLens :
         cc = [pc |-> "idle", kind |-> k, cw |-> w, hard_cap |-> h,
               prompt |-> Str("prompt", pl), system |-> Str("system", sl),
               sent |-> [has |-> FALSE, value |-> 0]]

CapNext == Complete

CapSpec == CapInit /\ [][CapNext]_vars

\* C13: for every context window, every provider hard cap >= 1 and every prompt and
\* system text, the completion cap each provider variant sends with the call is at
\* least 100 and at most provider_hard_cap.
C13_CapClamped ==
    (cc.pc = "sent" /\ cc.hard_cap >= 1) =>
        /\ cc.sent.has
        /\ cc.sent.value >= 100
        /\ cc.sent.value <= cc.hard_cap

----------------------------------------------------------------------------
(* JSON values and texts.  A value is a record [t, n, s, k, items]; a text  *)
(* is a sequence of lexical tokens [k, s, n], whitespace left out.  Strings *)
(* are named by their content; what a rewrite does to a content is given    *)
(* per content.                                                             *)

JV(t, n, s, k, items) == [t |-> t, n |-> n, s |-> s, k |-> k, items |-> items]
JNull == JV("null", 0, "", "", << >>)
JBool(b) == JV("bool", IF b THEN 1 ELSE 0, "", "", << >>)
JNum(n) == JV("num", n, "", "", << >>)
JStr(c) == JV("str", 0, c, "", << >>)
JArr(items) == JV("arr", 0, "", "", items)
JObj(members) == JV("obj", 0, "", "", members)
Member(key, x) == [x EXCEPT !.k = key]

\* string contents of the tool results, and those a parse may also produce
Contents == {"", "a", "None", "it's"}
ParseContents == Contents \cup {"null"}
has_apostrophe(c) == c = "it's"

Scalars(C) == {JNull, JBool(TRUE), JBool(FALSE), JNum(0), JNum(7)} \cup {JStr(c) : c \in C}
JsonValues(C) ==
    Scalars(C)
      \cup {JArr(<< >>)} \cup {JArr(<<a>>) : a \in Scalars(C)}
      \cup {JArr(<<a, b>>) : a \in Scalars(C), b \in Scalars(C)}
      \cup {JObj(<< >>)} \cup {JObj(<<Member("id", a)>>) : a \in Scalars(C)}

Tok(kind, c, n) == [k |-> kind, s |-> c, n |-> n]
Sym(kind) == Tok(kind, "", 0)

RECURSIVE JoinComma(_)
JoinComma(parts) ==
    IF parts = << >> THEN << >>
    ELSE IF Len(parts) = 1 THEN Head(parts)
    ELSE Head(parts) \o << Sym(",") >> \o JoinComma(Tail(parts))

\* json.dumps: double-quoted strings, null / true / false
scalar_json(x) ==
    CASE x.t = "null" -> << Tok("lit", "null", 0) >>
      [] x.t = "bool" -> << Tok("lit", IF x.n = 1 THEN "true" ELSE "false", 0) >>
      [] x.t = "num"  -> << Tok("num", "", x.n) >>
      [] x.t = "str"  -> << Tok("dq", x.s, 0) >>

json_dumps(v) ==
    CASE v.t = "arr" ->
           << Sym("[") >> \o JoinComma([i \in 1..Len(v.items) |-> scalar_json(v.items[i])])
                         \o << Sym("]") >>
      [] v.t = "obj" ->
           << Sym("{") >>
             \o JoinComma([i \in 1..Len(v.items) |->
                             << Tok("dq", v.items[i].k, 0), Sym(":") >> \o scalar_json(v.items[i])])
             \o << Sym("}") >>
      [] OTHER -> scalar_json(v)

\* str() / repr() of the native value: None / True / False, single-quoted strings,
\* double-quoted when the content holds an apostrophe
py_str_token(c) == IF has_apostrophe(c) THEN Tok("dq", c, 0) ELSE Tok("sq", c, 0)

scalar_repr(x) ==
    CASE x.t = "null" -> << Tok("lit", "None", 0) >>
      [] x.t = "bool" -> << Tok("lit", IF x.n = 1 THEN "True" ELSE "False", 0) >>
      [] x.t = "num"  -> << Tok("num", "", x.n) >>
      [] x.t = "str"  -> << py_str_token(x.s) >>

py_repr(v) ==
    CASE v.t = "arr" ->
           << Sym("[") >> \o JoinComma([i \in 1..Len(v.items) |-> scalar_repr(v.items[i])])
                         \o << Sym("]") >>
      [] v.t = "obj" ->
           << Sym("{") >>
             \o JoinComma([i \in 1..Len(v.items) |->
                             << py_str_token(v.items[i].k), Sym(":") >> \o scalar_repr(v.items[i])])
             \o << Sym("}") >>
      [] OTHER -> scalar_repr(v)

\* json.loads: the value whose JSON text this is, when there is one
json_parses(toks) == \E v \in JsonValues(ParseContents) : json_dumps(v) = toks
json_loads(toks) == CHOOSE v \in JsonValues(ParseContents) : json_dumps(v) = toks

\* _try_parse_json: None when json.loads raises, else what it returned (None for null)
try_parse_json(toks) ==
    IF json_parses(toks) THEN [none |-> json_loads(toks) = JNull, v |-> json_loads(toks)]
    ELSE [none |-> TRUE, v |-> JNull]

\* _extract_fenced_json: ```json ... ``` first, then ``` {...} ``` or ``` [...] ```
FenceJsonAt(toks, i, j) ==
    /\ i < j /\ toks[i].k = "fence_json" /\ toks[j].k = "fence"
    /\ \A m \in (i + 1)..(j - 1) : toks[m].k # "fence"
FenceAt(toks, i, j) ==
    /\ i + 1 < j /\ toks[i].k = "fence" /\ toks[j].k = "fence"
    /\ \/ toks[i + 1].k = "{" /\ toks[j - 1].k = "}"
       \/ toks[i + 1].k = "[" /\ toks[j - 1].k = "]"
    /\ \A m \in (i + 1)..(j - 1) : toks[m].k # "fence"

extract_fenced_json(toks) ==
    LET I == DOMAIN toks
        first(P(_, _)) ==
            CHOOSE ij \in I \X I :
                /\ P(ij[1], ij[2])
                /\ \A xy \in I \X I : P(xy[1], xy[2]) => ij[1] <= xy[1]
        J(a, b) == FenceJsonAt(toks, a, b)
        F(a, b) == FenceAt(toks, a, b)
    IN  IF \E i, j \in I : J(i, j)
        THEN [found |-> TRUE, toks |-> SubSeq(toks, first(J)[1] + 1, first(J)[2] - 1)]
        ELSE IF \E i, j \in I : F(i, j)
        THEN [found |-> TRUE, toks |-> SubSeq(toks, first(F)[1] + 1, first(F)[2] - 1)]
        ELSE [found |-> FALSE, toks |-> << >>]

\* raw.replace("None", "null").replace("True", "true").replace("False", "false"),
\* then re.sub(r"(?<!\\)\'", '"', ...): a content that is the word None becomes
\* null, every apostrophe becomes a double quote
naive_content(c) == IF c = "None" THEN "null" ELSE c
naive_token(t) ==
    CASE t.k = "lit" ->
           Tok("lit", CASE t.s = "None" -> "null" [] t.s = "True" -> "true"
                        [] t.s = "False" -> "false" [] OTHER -> t.s, 0)
      [] t.k \in {"sq", "dq"} ->
           IF has_apostrophe(t.s) THEN Tok("broken", t.s, 0)
           ELSE Tok("dq", naive_content(t.s), 0)
      [] OTHER -> t
naive(toks) == [i \in DOMAIN toks |-> naive_token(toks[i])]

\* the three parse stages applied to the text of the carriers
Parsed(stage, v) == [kind |-> "value", stage |-> stage, v |-> v, toks |-> << >>]
RawText(toks) == [kind |-> "text", stage |-> "raw", v |-> JNull, toks |-> toks]
Transport == [kind |-> "transport", stage |-> "none", v |-> JNull, toks |-> << >>]

parse_stages(raw) ==
    LET inner == extract_fenced_json(raw)
    IN  IF ~try_parse_json(raw).none THEN Parsed("direct", try_parse_json(raw).v)
        ELSE IF inner.found /\ inner.toks # << >> /\ ~try_parse_json(inner.toks).none
        THEN Parsed("fenced", try_parse_json(inner.toks).v)
        ELSE IF ~try_parse_json(naive(raw)).none
        THEN Parsed("naive", try_parse_json(naive(raw)).v)
        ELSE RawText(raw)

\* a text carrier: an object with a .text attribute, a string or not
TextCarrier(toks) == [str |-> TRUE, toks |-> toks]
NonStringCarrier == [str |-> FALSE, toks |-> << >>]

\* "\n".join(the string texts).strip()
RECURSIVE join_text_chunks(_)
join_text_chunks(chunks) ==
    IF chunks = << >> THEN << >>
    ELSE (IF Head(chunks).str THEN Head(chunks).toks ELSE << >>)
           \o join_text_chunks(Tail(chunks))

\* _jsonify_tool_result on data: a list of carriers, one carrier, or a native value
jsonify_tool_result(data) ==
    CASE data.shape = "list" ->
           IF join_text_chunks(data.texts) = << >> THEN Transport
           ELSE parse_stages(join_text_chunks(data.texts))
      [] data.shape = "single" ->
           IF data.texts[1].str THEN parse_stages(data.texts[1].toks) ELSE Transport
      [] OTHER -> [kind |-> "value", stage |-> "none", v |-> data.v, toks |-> << >>]

----------------------------------------------------------------------------
(* One normalization: a value v of the tool, put into a text in one of the *)
(* representations the servers use, carried in one of the transport shapes *)

Representations == {"json", "fenced_json", "fenced", "pseudo"}
Shapes == {"single", "list", "list_split", "list_blank", "single_nonstring", "native"}

represent(v, r, prose) ==
    (IF prose THEN << Tok("prose", "a", 0) >> ELSE << >>) \o
    CASE r = "json" -> json_dumps(v)
      [] r = "fenced_json" -> << Sym("fence_json") >> \o json_dumps(v) \o << Sym("fence") >>
      [] r = "fenced" -> << Sym("fence") >> \o json_dumps(v) \o << Sym("fence") >>
      [] r = "pseudo" -> py_repr(v)

tool_result(v, r, prose, shape) ==
    LET toks == represent(v, r, prose)
    IN  CASE shape = "single" ->
               [shape |-> "single", texts |-> << TextCarrier(toks) >>, v |-> JNull]
          [] shape = "list" ->
               [shape |-> "list", texts |-> << TextCarrier(toks) >>, v |-> JNull]
          [] shape = "list_split" ->
               [shape |-> "list",
                texts |-> << TextCarrier(SubSeq(toks, 1, 1)), NonStringCarrier,
                             TextCarrier(SubSeq(toks, 2, Len(toks))) >>,
                v |-> JNull]
          [] shape = "list_blank" ->
               [shape |-> "list", texts |-> << TextCarrier(<< >>), NonStringCarrier >>,
                v |-> JNull]
          [] shape = "single_nonstring" ->
               [shape |-> "single", texts |-> << NonStringCarrier >>, v |-> JNull]
          [] shape = "native" ->
               [shape |-> "native", texts |-> << >>, v |-> v]

\* the text the parse stages of _jsonify_tool_result are applied to
carried_text(data) ==
    CASE data.shape = "list" -> join_text_chunks(data.texts)
      [] data.shape = "single" -> (IF data.texts[1].str THEN data.texts[1].toks ELSE << >>)
      [] OTHER -> << >>

\* the stages _jsonify_tool_result attempts on a text, in the order it attempts them:
\* the fenced parse only when a block was extracted, the next stage whenever the one
\* before raised or returned None
stages_attempted(raw) ==
    LET inner == extract_fenced_json(raw)
        fenced_tried == inner.found /\ inner.toks # << >>
    IN  IF raw = << >> THEN << >>
        ELSE IF ~try_parse_json(raw).none THEN << "direct" >>
        ELSE IF fenced_tried /\ ~try_parse_json(inner.toks).none THEN << "direct", "fenced" >>
        ELSE IF fenced_tried THEN << "direct", "fenced", "naive" >>
        ELSE << "direct", "naive" >>

\* str(r) of a scalar list element, as the content of the "raw" cell
str_content(r) ==
    CASE r.t = "null" -> "None"
      [] r.t = "bool" -> (IF r.n = 1 THEN "True" ELSE "False")
      [] r.t = "num"  -> "number"
      [] OTHER -> r.s

\* r if isinstance(r, dict) else {"raw": str(r)}
row_or_raw(r) ==
    IF r.t = "obj" THEN r
    ELSE JObj(<< JV("str", r.n, str_content(r), "raw", << >>) >>)

\* {"raw": s[:10000]}: the row that keeps an unparsed text
raw_text_row(toks) == JObj(<< JV("text", 0, "", "raw", toks) >>)

\* the characters of a string value, as a text
content_text(c) == IF c = "" THEN << >> ELSE << Tok("lit", c, 0) >>

\* _rows_from_doc on a parsed document: a list gives one row per element, a mapping
\* with neither a "rows" nor a "data" list is the single row, a string goes through
\* the string branch, anything else gives no rows
RECURSIVE rows_from_doc(_)
RECURSIVE rows_from_string(_)
rows_from_doc(v) ==
    CASE v.t = "arr" -> [tried |-> << >>, rows |-> [i \in DOMAIN v.items |-> row_or_raw(v.items[i])]]
      [] v.t = "obj" -> [tried |-> << >>, rows |-> << v >>]
      [] v.t = "str" -> rows_from_string(content_text(v.s))
      [] OTHER -> [tried |-> << >>, rows |-> << >>]

\* the string branch of _rows_from_doc: the fenced block first, then the whole
\* string, then the naive rewrite
rows_from_string(s) ==
    LET inner == extract_fenced_json(s)
        fenced_tried == inner.found /\ inner.toks # << >>
        pre == IF fenced_tried THEN << "fenced" >> ELSE << >>
    IN  IF s = << >> THEN [tried |-> << >>, rows |-> << >>]
        ELSE IF fenced_tried /\ ~try_parse_json(inner.toks).none
        THEN [tried |-> << "fenced" >>,
              rows |-> rows_from_doc(try_parse_json(inner.toks).v).rows]
        ELSE IF ~try_parse_json(s).none
        THEN [tried |-> pre \o << "direct" >>,
              rows |-> rows_from_doc(try_parse_json(s).v).rows]
        ELSE IF ~try_parse_json(naive(s)).none
        THEN [tried |-> pre \o << "direct", "naive" >>,
              rows |-> rows_from_doc(try_parse_json(naive(s)).v).rows]
        ELSE [tried |-> pre \o << "direct", "naive" >>, rows |-> << raw_text_row(s) >>]

\* rows = _rows_from_doc(doc) on what _jsonify_tc returned for the tool result
rows_of_result(data, out) ==
    CASE out.kind = "text" -> rows_from_string(out.toks)
      [] out.kind = "value" -> rows_from_doc(out.v)
      [] OTHER -> \* the carriers themselves: a list gives a raw row each, one object none
           [tried |-> << >>,
            rows |-> IF data.shape = "list"
                     THEN [i \in DOMAIN data.texts |-> raw_text_row(data.texts[i].toks)]
                     ELSE << >>]

NoRows == [tried |-> << >>, rows |-> << >>]

Normalize ==
    /\ nz.pc = "idle"
    /\ nz' = [nz EXCEPT !.pc = "done",
                        !.out = jsonify_tool_result(
                                    tool_result(nz.v, nz.rep, nz.prose, nz.shape)),
                        !.tried = stages_attempted(carried_text(
                                      tool_result(nz.v, nz.rep, nz.prose, nz.shape)))]
    /\ UNCHANGED <<allocVars, ledger, cap, th, su, cc, rp, auxVars>>

\* fetch_research_papers: the normalized result of execute_sql goes to _rows_from_doc
RowsFromDoc ==
    /\ nz.pc = "done"
    /\ nz' = [nz EXCEPT !.pc = "rows",
                        !.rows = rows_of_result(
                                     tool_result(nz.v, nz.rep, nz.prose, nz.shape), nz.out)]
    /\ UNCHANGED <<allocVars, ledger, cap, th, su, cc, rp, auxVars>>

NormInit ==
    /\ variant = "optimize" /\ cw = 8000 /\ max_tokens = 1000 /\ mcu = 8
    /\ cap = default_usage_cap
    /\ usable = TRUE
    /\ user_prompt = EmptyText /\ issues_text = EmptyText /\ papers_text = EmptyText
    /\ pc = "start"
    /\ user_final = EmptyText /\ issues_sum = EmptyText /\ papers_sum = EmptyText
    /\ optimized_instruction = EmptyText /\ final_prompt = EmptyText
    /\ new_i_budget = 0 /\ new_p_budget = 0
    /\ plan = NoPlan
    /\ optimizer_error = FALSE
    /\ ledger = ZeroUsage
    /\ response = "none"
    /\ trace = << >>
    /\ th = IdleThreads
    /\ su = IdleSu
    /\ cc = IdleCc /\ rp = IdleRp /\ IdleAux
    /\ \E v \in JsonValues(Contents), r \in Representations, pr \in BOOLEAN, sh \in Shapes :
         /\ pr => r \in {"fenced_json", "fenced"}
         /\ nz = [pc |-> "idle", shape |-> sh, rep |-> r, prose |-> pr, v |-> v,
                  out |-> Transport, tried |-> << >>, rows |-> NoRows]

NormNext == Normalize \/ RowsFromDoc

NormSpec == NormInit /\ [][NormNext]_vars

TextCarried == nz.shape \in {"single", "list", "list_split"}

\* C14: for any JSON-compatible value v, null included, normalize returns the same
\* structured value v whether the text carrier holds v as plain JSON text, as JSON
\* inside a fenced code block, or as a single-quoted / None-True-False pseudo-JSON
\* string.
C14_SameValueFromEveryRepresentation ==
    (nz.pc = "done" /\ TextCarried /\ ~nz.prose) =>
        (nz.out.kind = "value" /\ nz.out.v = nz.v)

\* C15: for every raw tool result, a list of carriers whose texts are all empty or
\* non-string included, what normalize returns holds no transport object.
C15_NoTransportObjectReturned ==
    nz.pc = "done" => nz.out.kind # "transport"

----------------------------------------------------------------------------
(* TextRenderer.render_papers_text.  A row is a mapping (a JObj whose       *)
(* members keep their insertion order) or a string; a rendered line is a    *)
(* token text, empty for the empty string.                                  *)

RecognizedFields == {"url", "title", "date", "abstract", "category"}

\* str(k).lower()
lower(k) == CASE k = "URL" -> "url" [] k = "Title" -> "title" [] OTHER -> k

has_key(row, key) == \E i \in DOMAIN row.items : row.items[i].k = key

\* kl = {str(k).lower(): v ...}; kl.get(name, ""): the last member with that lowered key
kl_get(row, name) ==
    LET I == {i \in DOMAIN row.items : lower(row.items[i].k) = name}
    IN  IF I = {} THEN JStr("")
        ELSE row.items[CHOOSE i \in I : \A j \in I : j <= i]

\* bool(x)
truthy(x) ==
    CASE x.t = "null" -> FALSE [] x.t = "bool" -> x.n = 1 [] x.t = "num" -> x.n # 0
      [] x.t = "str" -> x.s # "" [] OTHER -> x.items # << >>

\* str(x) inside an f-string or str(row["raw"])
str_text(x) ==
    CASE x.t = "str" -> (IF x.s = "" THEN << >> ELSE << Tok("text", x.s, 0) >>)
      [] x.t = "null" -> << Tok("text", "None", 0) >>
      [] OTHER -> scalar_repr(x)

\* f"- {date} | {title} | {url}\n  abstract: {abstract}\n  category: {category}"
fields_line(row) ==
    << Sym("- ") >> \o str_text(kl_get(row, "date")) \o << Sym(" | ") >>
        \o str_text(kl_get(row, "title")) \o << Sym(" | ") >>
        \o str_text(kl_get(row, "url")) \o << Sym("abstract:") >>
        \o str_text(kl_get(row, "abstract")) \o << Sym("category:") >>
        \o str_text(kl_get(row, "category"))

\* f"- {json.dumps(row, ensure_ascii=False)}"
dump_line(row) == << Sym("- ") >> \o json_dumps(row)

\* mutant: a row of unknown shape is left out
render_row_skips_unknown(row) ==
    IF row.t = "str" THEN str_text(row)
    ELSE IF row.t = "obj" /\ has_key(row, "raw")
    THEN str_text(row.items[CHOOSE i \in DOMAIN row.items : row.items[i].k = "raw"])
    ELSE IF row.t = "obj" /\ \E f \in RecognizedFields : truthy(kl_get(row, f))
    THEN fields_line(row)
    ELSE << >>

\* the line one row contributes
render_row(row) ==
    IF row.t = "str" THEN str_text(row)
    ELSE IF row.t = "obj" /\ has_key(row, "raw")
    THEN str_text(row.items[CHOOSE i \in DOMAIN row.items : row.items[i].k = "raw"])
    ELSE IF row.t = "obj" /\ \E f \in RecognizedFields : truthy(kl_get(row, f))
    THEN fields_line(row)
    ELSE dump_line(row)

\* "\n".join(lines).strip()
RECURSIVE JoinLines(_)
JoinLines(lines) ==
    IF lines = << >> THEN << >>
    ELSE IF Len(lines) = 1 THEN Head(lines)
    ELSE Head(lines) \o << Sym("nl") >> \o JoinLines(Tail(lines))

RECURSIVE lstrip(_)
lstrip(t) == IF t # << >> /\ Head(t).k = "nl" THEN lstrip(Tail(t)) ELSE t
RECURSIVE rstrip(_)
rstrip(t) ==
    IF t # << >> /\ t[Len(t)].k = "nl" THEN rstrip(SubSeq(t, 1, Len(t) - 1)) ELSE t

render_papers_text(rows) == rstrip(lstrip(JoinLines([i \in DOMAIN rows |-> render_row(rows[i])])))

\* the rows of the model: every mapping over a subsequence of these keys
RowKeys == << "URL", "Title", "raw", "id" >>
CellValues == {JStr(""), JStr("a"), JNull}

RECURSIVE RowsOver(_)
RowsOver(keys) ==
    IF keys = << >> THEN { << >> }
    ELSE LET rest == RowsOver(Tail(keys))
         IN  rest \cup {<< Member(Head(keys), x) >> \o r : x \in CellValues, r \in rest}

Rows == {JObj(m) : m \in RowsOver(RowKeys)}
SecondRows == {JObj(<< >>), JStr("a")}
RowLists == {<< r >> : r \in Rows} \cup {<< r, q >> : r \in Rows, q \in SecondRows}

RenderPapers ==
    /\ rp.pc = "idle"
    /\ rp' = [rp EXCEPT !.pc = "done",
                        !.lines = [i \in DOMAIN rp.rows |-> render_row(rp.rows[i])],
                        !.out = render_papers_text(rp.rows)]
    /\ UNCHANGED <<allocVars, ledger, cap, th, su, cc, nz, auxVars>>

RenderInit ==
    /\ variant = "optimize" /\ cw = 8000 /\ max_tokens = 1000 /\ mcu = 8
    /\ cap = default_usage_cap
    /\ usable = TRUE
    /\ user_prompt = EmptyText /\ issues_text = EmptyText /\ papers_text = EmptyText
    /\ pc = "start"
    /\ user_final = EmptyText /\ issues_sum = EmptyText /\ papers_sum = EmptyText
    /\ optimized_instruction = EmptyText /\ final_prompt = EmptyText
    /\ new_i_budget = 0 /\ new_p_budget = 0
    /\ plan = NoPlan
    /\ optimizer_error = FALSE
    /\ ledger = ZeroUsage
    /\ response = "none"
    /\ trace = << >>
    /\ th = IdleThreads
    /\ su = IdleSu
    /\ cc = IdleCc /\ nz = IdleNz /\ IdleAux
    /\ \E rows \in RowLists :
         rp = [pc |-> "idle", rows |-> rows, lines |-> << >>, out |-> << >>]

RenderNext == RenderPapers

RenderSpec == RenderInit /\ [][RenderNext]_vars

\* a row mapping with none of the five recognized fields, matched case-insensitively
UnknownShape(row) ==
    row.t = "obj" /\ \A i \in DOMAIN row.items : lower(row.items[i].k) \notin RecognizedFields

\* C16 as stated: every row mapping that has none of the five recognized paper fields
\* is rendered as a non-empty line "- " + JSON encoding of the row.
C16_UnknownRowDumped ==
    rp.pc = "done" =>
        \A i \in DOMAIN rp.rows :
            UnknownShape(rp.rows[i]) =>
                rp.lines[i] # << >> /\ rp.lines[i] = << Sym("- ") >> \o json_dumps(rp.rows[i])

\* C16 amended: every row mapping that has none of the five recognized paper fields
\* and no "raw" key is rendered as a non-empty line "- " + JSON encoding of the row,
\* and that line is part of the rendered text.
C16_UnknownRowWithoutRawDumped ==
    rp.pc = "done" =>
        \A i \in DOMAIN rp.rows :
            (UnknownShape(rp.rows[i]) /\ ~has_key(rp.rows[i], "raw")) =>
                /\ rp.lines[i] # << >>
                /\ rp.lines[i] = << Sym("- ") >> \o json_dumps(rp.rows[i])
                /\ \E a \in 0..Len(rp.out) :
                      SubSeq(rp.out, a + 1, a + Len(rp.lines[i])) = rp.lines[i]

\* a row holding only an unrecognized column, rendered as its JSON dump
C16_Witness ==
    /\ rp.pc = "done" /\ Len(rp.rows) = 2
    /\ rp.rows[1] = JObj(<< Member("id", JStr("a")) >>)
    /\ rp.lines[1] = << Sym("- "), Sym("{"), Tok("dq", "id", 0), Sym(":"), Tok("dq", "a", 0),
                        Sym("}") >>

----------------------------------------------------------------------------
(* The worked example of the budget derivation *)

\* OptimizerConfig defaults: max_tokens and max_context_usage (0.8, in tenths)
default_max_tokens == 1000
default_max_context_usage == 8

DefaultConfig ==
    variant = "basic" \/ (max_tokens = default_max_tokens /\ mcu = default_max_context_usage)

\* C17: for context_window = 8000 with the optimizer configuration left at its
\* defaults the allocator derives exactly reserve_reply=2000, reserve_system=800,
\* prompt_budget=5200, context_budget_total=2340, issues_budget=1170,
\* papers_budget=1170, instruction_budget=2860, user_budget=1287.
C17_ExampleBudgets ==
    (Planned /\ cw = 8000 /\ DefaultConfig) =>
        plan = [reserve_reply |-> 2000, reserve_system |-> 800,
                prompt_budget_total |-> 5200, instruction_budget |-> 2860,
                context_budget_total |-> 2340, issues_budget |-> 1170,
                papers_budget |-> 1170, user_budget |-> 1287]

----------------------------------------------------------------------------
(* The calls of one request, read off its history *)

ContextBlocks == {"issues", "papers"}

\* C18: no completion call is made to summarize a context block whose current text
\* is empty, in the initial summarization, the rebalancing pass and the final safety
\* pass, and an empty block stays empty.
C18_NoCallForEmptyBlock ==
    /\ \A e \in Events : (e.block \in ContextBlocks /\ e.empty) => ~e.called
    /\ (pc \notin {"start", "sum_issues"} /\ issues_text = EmptyText) => issues_sum = EmptyText
    /\ (pc \notin {"start", "sum_issues", "sum_papers"} /\ papers_text = EmptyText)
           => papers_sum = EmptyText

\* the empty issues block went through the rebalancing and the final pass
C18_Witness ==
    /\ Returned /\ issues_text = EmptyText
    /\ \E e \in Events : e.block = "issues" /\ e.phase = "rebalance" /\ e.empty
    /\ \E e \in Events : e.block = "issues" /\ e.phase = "final" /\ e.empty
    /\ \E e \in Events : e.block = "papers" /\ e.phase = "final" /\ e.called

\* the place of a call in the procedure
CallRank(e) ==
    CASE e.phase = "initial" /\ e.block = "issues" -> 1
      [] e.phase = "initial" /\ e.block = "papers" -> 2
      [] e.phase = "rewrite" -> 3
      [] e.phase = "shrink" -> 4
      [] e.phase = "rebalance" /\ e.block = "issues" -> 5
      [] e.phase = "rebalance" /\ e.block = "papers" -> 6
      [] e.phase = "final" /\ e.block = "issues" -> 7
      [] e.phase = "final" /\ e.block = "papers" -> 8

Before(j, phase, block) ==
    \E i \in 1..(j - 1) : trace[i].phase = phase /\ trace[i].block = block

\* C19: the completion calls of one build_prompt are issued one after another in the
\* order issues summary, papers summary, instruction rewrite, re-summarizations: the
\* rewrite is not issued before both initial summaries, and no rebalancing or
\* final-pass re-summarization before the rewrite step.
C19_CallsInOrder ==
    /\ \A i, j \in DOMAIN trace : i < j => CallRank(trace[i]) < CallRank(trace[j])
    /\ \A j \in DOMAIN trace :
         /\ trace[j].phase = "rewrite" =>
              /\ issues_text # EmptyText => Before(j, "initial", "issues")
              /\ papers_text # EmptyText => Before(j, "initial", "papers")
         /\ trace[j].phase \in {"rebalance", "final"} => Before(j, "rewrite", "instruction")

\* a request that issued a call at every one of the eight places
C19_Witness ==
    /\ Returned
    /\ {CallRank(e) : e \in {x \in Events : x.called}} = 1..8

\* the target a block was last summarized to before history entry j: that of its
\* latest earlier entry, its planned budget when there is none
LastTarget(b, j) ==
    LET I == {i \in 1..(j - 1) : trace[i].block = b}
    IN  IF I = {} THEN (IF b = "issues" THEN plan.issues_budget ELSE plan.papers_budget)
        ELSE trace[CHOOSE i \in I : \A k \in I : k <= i].target

Shrinks(j) == trace[j].target < LastTarget(trace[j].block, j)

PassComplete(phase) ==
    \E i, j \in DOMAIN trace :
        /\ trace[i].phase = phase /\ trace[i].block = "issues"
        /\ trace[j].phase = phase /\ trace[j].block = "papers"

PassShrinksOne(phase) ==
    PassComplete(phase) =>
        \E j \in DOMAIN trace : trace[j].phase = phase /\ Shrinks(j)

\* C20 as stated: whenever the rebalancing pass or the final safety pass runs, at
\* least one of the two context blocks is re-summarized to a target strictly smaller
\* than the target it was last summarized to.
C20_EachPassShrinksATarget == PassShrinksOne("rebalance") /\ PassShrinksOne("final")

\* C20 amended: whenever the overflow rebalancing pass runs, at least one of the two
\* context blocks is re-summarized to a target strictly smaller than the target it
\* was last summarized to (its planned budget when it was never summarized).  The
\* final safety pass carries no such guarantee: its targets half and rem - half can
\* equal the previous ones.
C20_RebalanceShrinksATarget == PassShrinksOne("rebalance")

\* a rebalancing pass over two summaries that filled their budgets: both are sent
\* again, the papers block to a smaller target
C20_Witness ==
    /\ PassComplete("rebalance")
    /\ \A j \in DOMAIN trace : trace[j].phase \in {"initial", "rebalance"} => trace[j].called
    /\ \E j \in DOMAIN trace :
         trace[j].phase = "rebalance" /\ trace[j].block = "papers" /\ Shrinks(j)
    /\ \E j \in DOMAIN trace :
         trace[j].phase = "rebalance" /\ trace[j].block = "issues"
           /\ LastTarget("issues", j) = plan.issues_budget

----------------------------------------------------------------------------
(* The user request inside the texts of one request *)

IsUserChunk(c) == c.src = "user"

\* the characters of a text that come from the user prompt
UserPart(text) == SelectSeq(text, IsUserChunk)

\* a prefix of the original user prompt that fits user_budget
RequestWithinBudget(t) ==
    IsPrefixOf(t, user_prompt) /\ estimate_tokens(t) <= plan.user_budget

\* C21: the user request build_prompt embeds - in the rewrite request, in the
\* fallback instruction and as the instruction when the rewrite returns empty text -
\* is always a prefix of the original user_prompt with estimate <= user_budget, and
\* the user prompt text is never passed to the Summarizer on any path.
C21_RequestTrimmedNeverSummarized ==
    pc # "start" =>
        /\ RequestWithinBudget(user_final)
        /\ \A e \in Events :
              IF e.phase = "rewrite"
              THEN UserPart(e.text) = user_final /\ Contains(e.text, user_final)
              ELSE UserPart(e.text) = EmptyText
        /\ UserPart(optimized_instruction) \in {EmptyText, user_final}
        /\ optimizer_error =>
              /\ Contains(optimized_instruction, user_final)
              /\ UserPart(optimized_instruction) = user_final
        /\ UserPart(issues_sum) = EmptyText /\ UserPart(papers_sum) = EmptyText

\* an overlong user prompt, cut to user_budget, came back as the instruction after an
\* empty rewrite, and the final pass sent the context blocks to the Summarizer again
C21_Witness ==
    /\ Returned
    /\ TextLen(user_prompt) > 4 * plan.user_budget
    /\ user_final = Take(user_prompt, 4 * plan.user_budget)
    /\ \E e \in Events : e.phase = "rewrite" /\ e.returned
    /\ optimized_instruction = user_final
    /\ FinalPassRan

FailedCall == \E e \in Events : e.called /\ ~e.returned

\* C22: whenever a completion-provider call fails during build_prompt, in any
\* summarization call or in the instruction rewrite, the returned result's debug
\* trace contains a record of that error.
C22_FailuresRecorded == (Returned /\ FailedCall) => optimizer_error

----------------------------------------------------------------------------
(* The targets handed to the Summarizer *)

SummarizerEvents == {e \in Events : e.phase # "rewrite"}

\* C28 as stated: for every context window >= 1 and every optimizer configuration,
\* every target_tokens the allocator passes to the Summarizer (initial, rebalanced,
\* half and rem - half) is at least 1.
C28_TargetsPositive == cw >= 1 => \A e \in SummarizerEvents : e.target >= 1

\* C28 amended: every target_tokens the allocator passes to the Summarizer is at
\* least 1 whenever prompt_budget_total >= 481, which the basic allocator always
\* has and the extended one has when max_tokens >= 481; the initial budgets are then
\* at least 150, the rebalanced ones at least 100 and half at least 80.
C28_TargetsPositiveFromBudget481 ==
    (cw >= 1 /\ PB >= 481) =>
        \A e \in SummarizerEvents :
            /\ e.target >= 1
            /\ e.phase = "initial" => e.target >= 150
            /\ e.phase = "rebalance" => e.target >= 100
            /\ (e.phase = "final" /\ e.block = "issues") => e.target >= 80

\* prompt_budget 481 and an instruction of 400 tokens: the final pass sends the
\* papers block with a target of exactly 1
C28_Witness ==
    /\ PB = 481
    /\ \E e \in SummarizerEvents :
          e.phase = "final" /\ e.block = "papers" /\ e.called /\ e.target = 1

\* C29: in the basic allocator (no max_tokens cap) the overflow rebalancing pass
\* never executes: when its check is reached, estimate(instruction)
\* + estimate(issues_sum) + estimate(papers_sum) <= prompt_budget, for every
\* context window and provider behaviour.
C29_BasicNeverRebalances ==
    variant = "basic" =>
        /\ pc = "check" => total_now <= PB
        /\ pc \notin {"reb_issues", "reb_papers"}
        /\ ~RebalanceRan

\* the check reached in the basic allocator with every part exactly at its budget
C29_Witness ==
    /\ variant = "basic" /\ pc = "check"
    /\ estimate_tokens(optimized_instruction) = INB
    /\ estimate_tokens(issues_sum) = IB /\ estimate_tokens(papers_sum) = PPB
    /\ total_now = PB

----------------------------------------------------------------------------
(* The order of the parse stages *)

StageOrders == { << "direct" >>, << "direct", "fenced" >>, << "direct", "naive" >>,
                 << "direct", "fenced", "naive" >> }

\* the outcome of the first of the three stages whose parse succeeds on raw
FirstSuccess(raw) ==
    LET inner == extract_fenced_json(raw)
    IN  IF json_parses(raw) THEN Parsed("direct", json_loads(raw))
        ELSE IF inner.found /\ json_parses(inner.toks)
        THEN Parsed("fenced", json_loads(inner.toks))
        ELSE IF json_parses(naive(raw)) THEN Parsed("naive", json_loads(naive(raw)))
        ELSE RawText(raw)

NaiveTooEarly(tried, raw) ==
    LET inner == extract_fenced_json(raw)
        seen == {tried[i] : i \in DOMAIN tried}
    IN  "naive" \in seen /\ (json_parses(raw) \/ (inner.found /\ json_parses(inner.toks)))

\* C23: every normalization of text-carrier or string input attempts the parse stages
\* in the order direct JSON parse, fenced-block JSON parse, naive JSON-ization, and
\* returns the result of the first stage that succeeds (the raw text if none does);
\* naive JSON-ization is never attempted before both other stages have failed.
C23_StagesInOrderFirstSuccessWins ==
    /\ (nz.pc \in {"done", "rows"} /\ TextCarried) =>
          LET raw == carried_text(tool_result(nz.v, nz.rep, nz.prose, nz.shape))
          IN  /\ nz.tried \in StageOrders
              /\ ~NaiveTooEarly(nz.tried, raw)
              /\ nz.out = FirstSuccess(raw)
    /\ (nz.pc = "rows" /\ nz.rows.tried # << >>) => nz.rows.tried \in StageOrders

----------------------------------------------------------------------------
(* StructuredExtractor: extract_issue_list and extract_comment_list of the  *)
(* issue fetcher.  A document is a JSON value; a mapping is a JObj, whose   *)
(* members carry their key in k.                                            *)

IsMapping(x) == x.t = "obj"

\* the value of a member, without the key it sits under
Val(x) == [x EXCEPT !.k = ""]

\* doc.get(key): None when the key is absent
get(doc, key) ==
    IF doc.t = "obj" /\ has_key(doc, key)
    THEN Val(doc.items[CHOOSE i \in DOMAIN doc.items : doc.items[i].k = key])
    ELSE JNull

\* ("items", "issues", "results", "nodes") / ("items", "comments", "results", "nodes")
container_keys(kind) == << "items", kind, "results", "nodes" >>

has_container(doc, kind) ==
    \E i \in 1..4 : get(doc, container_keys(kind)[i]).t = "arr"

\* x.get("node", x)
node_or_self(x) == IF has_key(x, "node") THEN get(x, "node") ELSE x

\* [x.get("node", x) for x in arr if isinstance(x, dict)] for the first container key
\* whose value is a list
from_container(doc, kind) ==
    LET keys == container_keys(kind)
        i == CHOOSE a \in 1..4 :
                 /\ get(doc, keys[a]).t = "arr"
                 /\ \A b \in 1..4 : get(doc, keys[b]).t = "arr" => a <= b
        kept == SelectSeq(get(doc, keys[i]).items, IsMapping)
    IN  [j \in DOMAIN kept |-> node_or_self(kept[j])]

\* isinstance(e, dict) and isinstance(e.get("node"), dict)
HasNodeMapping(e) == e.t = "obj" /\ get(e, "node").t = "obj"

from_edges(doc) ==
    LET kept == SelectSeq(get(doc, "edges").items, HasNodeMapping)
    IN  [j \in DOMAIN kept |-> get(kept[j], "node")]

\* if "id" in doc and "number" in doc: return [doc]  (extract_issue_list only)
single_item(doc, kind) ==
    IF kind = "issues" /\ has_key(doc, "id") /\ has_key(doc, "number") THEN << doc >> ELSE << >>

\* the extraction without the step into "data"
extract_shallow(doc, kind) ==
    IF doc.t = "obj"
    THEN IF has_container(doc, kind) THEN from_container(doc, kind)
         ELSE IF get(doc, "edges").t = "arr" THEN from_edges(doc)
         ELSE single_item(doc, kind)
    ELSE IF doc.t = "arr" THEN SelectSeq(doc.items, IsMapping)
    ELSE << >>

\* mutant: the nested "data" mapping is looked into, and no deeper
extract_list_one_level(doc, kind) ==
    IF doc.t = "obj"
    THEN IF has_container(doc, kind) THEN from_container(doc, kind)
         ELSE IF get(doc, "edges").t = "arr" THEN from_edges(doc)
         ELSE IF get(doc, "data").t = "obj" THEN extract_shallow(get(doc, "data"), kind)
         ELSE single_item(doc, kind)
    ELSE IF doc.t = "arr" THEN SelectSeq(doc.items, IsMapping)
    ELSE << >>

\* extract_issue_list (kind "issues") and extract_comment_list (kind "comments")
RECURSIVE extract_list(_, _)
extract_list(doc, kind) ==
    IF doc.t = "obj"
    THEN IF has_container(doc, kind) THEN from_container(doc, kind)
         ELSE IF get(doc, "edges").t = "arr" THEN from_edges(doc)
         ELSE IF get(doc, "data").t = "obj" THEN extract_list(get(doc, "data"), kind)
         ELSE single_item(doc, kind)
    ELSE IF doc.t = "arr" THEN SelectSeq(doc.items, IsMapping)
    ELSE << >>

\* the documents of the model: a payload under 0..MaxDataDepth levels of "data"
MaxDataDepth == 3

IssueItem == JObj(<< Member("id", JNum(7)), Member("number", JNum(7)) >>)
ExElements == { IssueItem, JNum(7), JStr("a"),
                JObj(<< Member("node", IssueItem) >>), JObj(<< Member("node", JNum(7)) >>) }
ExLists == { << >> } \cup { << a >> : a \in ExElements }
             \cup { << a, b >> : a \in ExElements, b \in ExElements }
ExKeys == {"items", "issues", "comments", "results", "nodes", "edges"}
ExPayloads ==
    { JObj(<< Member(k, JArr(l)) >>) : k \in ExKeys, l \in ExLists }
      \cup { JObj(<< Member("results", JArr(<< IssueItem >>)), Member("items", JArr(<< >>)) >>),
             JObj(<< Member("items", JNum(7)), Member("nodes", JArr(<< IssueItem >>)) >>),
             JObj(<< Member("data", JArr(<< IssueItem >>)) >>),
             IssueItem, JObj(<< Member("id", JNum(7)) >>), JObj(<< >>),
             JNull, JStr("a"), JNum(7) }
      \cup { JArr(l) : l \in ExLists }

RECURSIVE Wrap(_, _)
Wrap(payload, d) ==
    IF d = 0 THEN payload ELSE JObj(<< Member("data", Wrap(payload, d - 1)) >>)

ExtractItems ==
    /\ ex.pc = "idle"
    /\ ex' = [ex EXCEPT !.pc = "done", !.out = extract_list(ex.doc, ex.kind)]
    /\ UNCHANGED <<allocVars, ledger, cap, th, su, cc, nz, rp, us, ao, li>>

ExInit ==
    /\ IdleRequest /\ ledger = ZeroUsage /\ cap = default_usage_cap
    /\ cc = IdleCc /\ nz = IdleNz /\ rp = IdleRp
    /\ us = IdleUs /\ ao = IdleAo /\ li = IdleLi
    /\ \E kind \in {"issues", "comments"}, payload \in ExPayloads, d \in 0..MaxDataDepth :
         ex = [pc |-> "idle", kind |-> kind, payload |-> payload, depth |-> d,
               doc |-> Wrap(payload, d), out |-> << >>]

ExNext == ExtractItems

ExSpec == ExInit /\ [][ExNext]_vars

\* a mapping the extractor has to look below: no container key holds a list, no edges list
ContainerFree(doc, kind) ==
    doc.t = "obj" /\ ~has_container(doc, kind) /\ get(doc, "edges").t # "arr"

\* C24 as stated: for a mapping with no container key and no edges list the extractor
\* descends into a nested data mapping exactly one level: items under two or more
\* levels of data (data.data.items) are not unwrapped further.
C24_DataDescentOneLevel ==
    (ex.pc = "done" /\ ContainerFree(ex.doc, ex.kind) /\ get(ex.doc, "data").t = "obj") =>
        ex.out = extract_shallow(get(ex.doc, "data"), ex.kind)

\* C24 amended: for a mapping with no container key and no edges list the extractor
\* descends into a nested data mapping at every level: a payload under one or more
\* levels of data (data.items, data.data.items, ...) yields the list the payload
\* mapping yields on its own.
C24_DataDescentEveryLevel ==
    (ex.pc = "done" /\ ex.depth >= 1 /\ IsMapping(ex.payload)) =>
        ex.out = extract_shallow(ex.payload, ex.kind)

\* items under three levels of data came out, the node of a wrapped one included
C24_Witness ==
    /\ ex.pc = "done" /\ ex.depth = 3 /\ ex.kind = "issues"
    /\ ex.payload = JObj(<< Member("items", JArr(<< IssueItem, JObj(<< Member("node", IssueItem) >>) >>)) >>)
    /\ ex.out = << IssueItem, IssueItem >>

\* C25: for every input value (mapping with any container key, edges list, nested
\* data, sequence, or anything else) every element of the list returned by
\* extract_items is a mapping.
C25_EveryElementIsMapping ==
    ex.pc = "done" => \A i \in DOMAIN ex.out : IsMapping(ex.out[i])

----------------------------------------------------------------------------
(* A sequence of update_provider_usage and reset_provider_usage calls on    *)
(* one provider of one SettingsManager, one call after the other            *)

MaxLedgerCap == 4
MaxUsCalls == 4

\* UsageTracking.reset_usage
reset_usage == ZeroUsage

\* the ledgers whose total is the sum of its three counters and within the cap c
LedgersWithin(c) ==
    { update_usage(ZeroUsage, t[1], t[2], t[3], 0) :
        t \in { x \in (0..c) \X (0..c) \X (0..c) : x[1] + x[2] + x[3] <= c } }

\* update_provider_usage(provider_key, u, o, r) with api_calls left at its default 1
UpdateProviderUsage ==
    /\ us.pc = "ready" /\ us.calls < MaxUsCalls
    /\ \E u \in 0..MaxAmount, o \in 0..MaxAmount, r \in 0..MaxAmount :
         /\ ledger' = update_provider_usage(ledger, cap, u, o, r, 1)
         /\ us' = [us EXCEPT !.calls = @ + 1,
                             !.last = IF usage_accepted(ledger, cap, u, o, r)
                                      THEN "accepted" ELSE "rejected"]
    /\ UNCHANGED <<allocVars, cap, th, su, cc, nz, rp, ex, ao, li>>

\* reset_provider_usage(provider_key)
ResetProviderUsage ==
    /\ us.pc = "ready" /\ us.calls < MaxUsCalls
    /\ ledger' = reset_usage
    /\ us' = [us EXCEPT !.calls = @ + 1, !.last = "reset", !.resets = TRUE]
    /\ UNCHANGED <<allocVars, cap, th, su, cc, nz, rp, ex, ao, li>>

UsInit ==
    /\ IdleRequest
    /\ cap \in 0..MaxLedgerCap
    /\ ledger \in LedgersWithin(cap)
    /\ cc = IdleCc /\ nz = IdleNz /\ rp = IdleRp
    /\ ex = IdleEx /\ ao = IdleAo /\ li = IdleLi
    /\ us = [pc |-> "ready", calls |-> 0, last |-> "none", resets |-> FALSE]

UsNext == UpdateProviderUsage \/ ResetProviderUsage

UsSpec == UsInit /\ [][UsNext]_vars

----------------------------------------------------------------------------
(* POST /api/optimize of the extended playground: the optimizer's usage    *)
(* callback writes through the process-wide SettingsManager, the response   *)
(* reads its usage_tracking from the session's SettingsManager              *)

\* the keys of get_provider_usage's result that the counters determine
get_provider_usage(l, c) ==
    [total_tokens_used |-> l.total_tokens_used, user_tokens |-> l.user_tokens,
     optimized_tokens |-> l.optimized_tokens, response_tokens |-> l.response_tokens,
     api_calls |-> l.api_calls, usage_cap_tokens |-> c,
     remaining_tokens |-> Max(0, c - l.total_tokens_used),
     is_cap_exceeded |-> l.total_tokens_used >= c]

\* the usage callback run once per returned completion, on ledger l: the ledger
\* after the calls and the number of records it accepted
RECURSIVE record_calls(_, _, _, _)
record_calls(l, c, calls, k) ==
    IF calls = << >> THEN [ledger |-> l, k |-> k]
    ELSE LET in_tokens == Head(calls)[1]
             out_tokens == Head(calls)[2]
         IN  record_calls(update_provider_usage(l, c, in_tokens, 0, out_tokens, 1), c,
                          Tail(calls),
                          IF usage_accepted(l, c, in_tokens, 0, out_tokens) THEN k + 1 ELSE k)

ApiLedgers ==
    { update_usage(ZeroUsage, u, 0, 0, n) : u \in 0..2, n \in 0..1 }
ApiCalls == { <<1, 1>>, <<2, 1>> }
ApiCallSeqs == { << >> } \cup { << a >> : a \in ApiCalls }
                 \cup { << a, b >> : a \in ApiCalls, b \in ApiCalls }

\* api_optimize: default_chat_service.optimize_prompt records into settings_manager's
\* ledger, then get_session_settings_manager().get_provider_usage(provider) is returned
ApiOptimize ==
    /\ ao.pc = "idle"
    /\ LET run == record_calls(ao.global, ao.global_cap, ao.calls, 0)
       IN  ao' = [ao EXCEPT !.pc = "done",
                            !.global = run.ledger,
                            !.k = run.k,
                            !.usage_tracking = get_provider_usage(ao.session, ao.session_cap)]
    /\ UNCHANGED <<allocVars, ledger, cap, th, su, cc, nz, rp, ex, us, li>>

ApiInit ==
    /\ IdleRequest /\ ledger = ZeroUsage /\ cap = default_usage_cap
    /\ cc = IdleCc /\ nz = IdleNz /\ rp = IdleRp
    /\ ex = IdleEx /\ us = IdleUs /\ li = IdleLi
    /\ \E g \in ApiLedgers, l \in ApiLedgers, gc \in {MaxLedgerCap, default_usage_cap},
          calls \in ApiCallSeqs :
         ao = [pc |-> "idle", global |-> g, session |-> l, global_cap |-> gc,
               session_cap |-> default_usage_cap, calls |-> calls, k |-> 0,
               before |-> get_provider_usage(l, default_usage_cap),
               usage_tracking |-> get_provider_usage(l, default_usage_cap)]

ApiNext == ApiOptimize

ApiSpec == ApiInit /\ [][ApiNext]_vars

\* C27: the usage_tracking returned by POST /api/optimize is read from the ledger the
\* request's optimizer calls were recorded into: after a request whose optimizer had k
\* usage records accepted for provider P, the reported api_calls for P is k higher
\* than it was before the request.
C27_ReportedUsageCountsTheRequest ==
    ao.pc = "done" => ao.usage_tracking.api_calls = ao.before.api_calls + ao.k

----------------------------------------------------------------------------
(* list_open_issues of the issue fetcher.  The server holds issues 1..N,    *)
(* each open or closed; a payload with a state filter is answered with the  *)
(* open ones, the bare payload with all; a call without page arguments is   *)
(* answered with the server's own first page.                               *)

\* per_page is 100 in the source; the model pages by PerPage
PerPage == 2
MaxIssues == 3

\* the five payload variants, in order; the last one carries no state filter
Variants == 1..5

\* the ids the server lists for a payload variant
served(issues, v) ==
    LET ids == [i \in DOMAIN issues |-> i]
        IsOpen(i) == issues[i] = "open"
    IN  IF v = 5 THEN ids ELSE SelectSeq(ids, IsOpen)

page_of(list, page) ==
    SubSeq(list, (page - 1) * PerPage + 1, Min(page * PerPage, Len(list)))

first_page(list, size) == SubSeq(list, 1, Min(size, Len(list)))

\* the batch of a call that succeeded
batch_of(l, v) ==
    IF l.supports_pagination THEN page_of(served(l.issues, v), l.page)
    ELSE first_page(served(l.issues, v), l.srv_default)

\* one pass of "while True" in which a call of the for loop succeeds: with variant
\* chosen when one is chosen, else with the first variant that does not raise
ListCallSucceeds ==
    /\ li.pc = "loop"
    /\ \E v \in (IF li.chosen # 0 THEN {li.chosen} ELSE Variants) :
         LET batch == batch_of(li, v)
         IN  li' = IF batch = << >> /\ li.page = 1 /\ li.supports_pagination
                   THEN [li EXCEPT !.chosen = v, !.supports_pagination = FALSE]
                   ELSE IF ~li.supports_pagination \/ Len(batch) < PerPage
                   THEN [li EXCEPT !.chosen = v, !.collected = @ \o batch, !.pc = "filter"]
                   ELSE [li EXCEPT !.chosen = v, !.collected = @ \o batch, !.page = @ + 1]
    /\ UNCHANGED <<allocVars, ledger, cap, th, su, cc, nz, rp, ex, us, ao>>

\* one pass in which every call of the for loop raises: the for-else branch
ListCallsFail ==
    /\ li.pc = "loop"
    /\ li' = IF li.supports_pagination
             THEN [li EXCEPT !.supports_pagination = FALSE, !.page = 1]
             ELSE [li EXCEPT !.pc = "raised"]
    /\ UNCHANGED <<allocVars, ledger, cap, th, su, cc, nz, rp, ex, us, ao>>

\* return [x for x in collected if normalize_state(x.get("state")) == "open"]
ListReturn ==
    /\ li.pc = "filter"
    /\ LET IsOpen(i) == li.issues[i] = "open"
       IN  li' = [li EXCEPT !.pc = "done", !.result = SelectSeq(li.collected, IsOpen)]
    /\ UNCHANGED <<allocVars, ledger, cap, th, su, cc, nz, rp, ex, us, ao>>

IssueStates == {"open", "closed"}

ListInit ==
    /\ IdleRequest /\ ledger = ZeroUsage /\ cap = default_usage_cap
    /\ cc = IdleCc /\ nz = IdleNz /\ rp = IdleRp
    /\ ex = IdleEx /\ us = IdleUs /\ ao = IdleAo
    /\ \E n \in 0..MaxIssues, d \in {1, MaxIssues} :
         \E issues \in [1..n -> IssueStates] :
            li = [pc |-> "loop", issues |-> issues, srv_default |-> d, page |-> 1,
                  chosen |-> 0, supports_pagination |-> TRUE, collected |-> << >>,
                  result |-> << >>]

ListNext == ListCallSucceeds \/ ListCallsFail \/ ListReturn

ListSpec == ListInit /\ [][ListNext]_vars

\* C30: list_open_issues returns each issue held by the server at most once, for any
\* pattern of per-call successes and failures of the list tool, a later page failing
\* after earlier pages succeeded (the switch to the unpaginated retry) included.
C30_EachIssueAtMostOnce ==
    li.pc = "done" =>
        \A i, j \in DOMAIN li.result : li.result[i] = li.result[j] => i = j

====
